---- MODULE Spec2Model ----
(***************************************************************************)
(* Model of server.js, the local-first development proxy of the           *)
(* repository: handleRequest and the helpers it awaits (fileExists,        *)
(* serveLocalFile, proxyRequest), one action per resumption of the async   *)
(* handler.  Strings the code inspects character by character (request    *)
(* URLs, file paths, content types) are sequences of one-character        *)
(* strings; bodies are sequences of bytes.                                 *)
(***************************************************************************)
EXTENDS Integers, Sequences, FiniteSets, TLC

(***************************************************************************)
(* Bounds of the model.                                                    *)
(***************************************************************************)
\* connection slots: requests that can be in flight at the same time
MaxConns == 2

\* interrupt signals the process takes
MaxSigints == 2

Conns == 1..MaxConns

(***************************************************************************)
(* Program constants (server.js:10-11, 123).                               *)
(***************************************************************************)
PORT == 3000

PROXY_HOST ==
  <<"h","t","t","p","s",":","/","/","a","l","l","a","b","o","u","t",".","n","e","t","w","o","r","k">>

\* the document substituted for the root path
DefaultDocument == <<"/","a","e","m",".","h","t","m","l">>

\* __dirname: the directory of server.js, the root of local resolution
DirName == <<"/","r">>

OctetStream ==
  <<"a","p","p","l","i","c","a","t","i","o","n","/","o","c","t","e","t","-","s","t","r","e","a","m">>

TextHtml == <<"t","e","x","t","/","h","t","m","l">>

\* the mimeTypes object as the module creates it: the set of its
\* <<extension, content type>> entries
MimeTypesAtLoad == {
    <<<<".","h","t","m","l">>,
      <<"t","e","x","t","/","h","t","m","l">>>>,
    <<<<".","j","s">>,
      <<"a","p","p","l","i","c","a","t","i","o","n","/","j","a","v","a","s","c","r","i","p","t">>>>,
    <<<<".","c","s","s">>,
      <<"t","e","x","t","/","c","s","s">>>>,
    <<<<".","j","s","o","n">>,
      <<"a","p","p","l","i","c","a","t","i","o","n","/","j","s","o","n">>>>,
    <<<<".","p","n","g">>,
      <<"i","m","a","g","e","/","p","n","g">>>>,
    <<<<".","j","p","g">>,
      <<"i","m","a","g","e","/","j","p","e","g">>>>,
    <<<<".","j","p","e","g">>,
      <<"i","m","a","g","e","/","j","p","e","g">>>>,
    <<<<".","g","i","f">>,
      <<"i","m","a","g","e","/","g","i","f">>>>,
    <<<<".","s","v","g">>,
      <<"i","m","a","g","e","/","s","v","g","+","x","m","l">>>>,
    <<<<".","i","c","o">>,
      <<"i","m","a","g","e","/","x","-","i","c","o","n">>>>,
    <<<<".","w","o","f","f">>,
      <<"f","o","n","t","/","w","o","f","f">>>>,
    <<<<".","w","o","f","f","2">>,
      <<"f","o","n","t","/","w","o","f","f","2">>>>,
    <<<<".","t","t","f">>,
      <<"f","o","n","t","/","t","t","f">>>>,
    <<<<".","e","o","t">>,
      <<"a","p","p","l","i","c","a","t","i","o","n","/","v","n","d",".","m","s","-","f","o","n","t","o","b","j","e","c","t">>>> }

(***************************************************************************)
(* String helpers: String.prototype.startsWith / includes / slice.         *)
(***************************************************************************)
StartsWith(s, p) ==
  /\ Len(p) <= Len(s)
  /\ SubSeq(s, 1, Len(p)) = p

\* s.includes(p): p occurs in s as a contiguous substring
Includes(s, p) ==
  \E i \in 0..(Len(s) - Len(p)) : SubSeq(s, i + 1, i + Len(p)) = p

\* s.slice(1)
Slice1(s) == SubSeq(s, 2, Len(s))

(***************************************************************************)
(* path.join and path.extname (posix), as Node computes them.              *)
(***************************************************************************)
\* the "/"-separated segments of s, empty segments included
RECURSIVE SplitSlash(_)
SplitSlash(s) ==
  IF \A i \in 1..Len(s) : s[i] # "/"
  THEN <<s>>
  ELSE LET i == CHOOSE k \in 1..Len(s) :
                  s[k] = "/" /\ \A j \in 1..(k - 1) : s[j] # "/"
       IN  <<SubSeq(s, 1, i - 1)>> \o SplitSlash(SubSeq(s, i + 1, Len(s)))

\* normalizeString: "" and "." are dropped, ".." removes the segment before
\* it; above the root of an absolute path ".." is dropped
RECURSIVE NormalizeSegs(_, _, _)
NormalizeSegs(segs, acc, allowAboveRoot) ==
  IF segs = <<>> THEN acc
  ELSE LET s == Head(segs)
           rest == Tail(segs)
       IN  IF s = <<>> \/ s = <<".">>
           THEN NormalizeSegs(rest, acc, allowAboveRoot)
           ELSE IF s = <<".", ".">>
           THEN IF acc # <<>> /\ acc[Len(acc)] # <<".", ".">>
                THEN NormalizeSegs(rest, SubSeq(acc, 1, Len(acc) - 1), allowAboveRoot)
                ELSE IF allowAboveRoot
                THEN NormalizeSegs(rest, Append(acc, s), allowAboveRoot)
                ELSE NormalizeSegs(rest, acc, allowAboveRoot)
           ELSE NormalizeSegs(rest, Append(acc, s), allowAboveRoot)

RECURSIVE JoinSlash(_)
JoinSlash(segs) ==
  IF segs = <<>> THEN <<>>
  ELSE IF Len(segs) = 1 THEN segs[1]
  ELSE segs[1] \o <<"/">> \o JoinSlash(Tail(segs))

\* path.normalize
Normalize(p) ==
  IF p = <<>> THEN <<".">>
  ELSE LET isAbsolute == p[1] = "/"
           trailing == p[Len(p)] = "/"
           body == JoinSlash(NormalizeSegs(SplitSlash(p), <<>>, ~isAbsolute))
       IN  IF body = <<>>
           THEN IF isAbsolute THEN <<"/">>
                ELSE IF trailing THEN <<".", "/">> ELSE <<".">>
           ELSE (IF isAbsolute THEN <<"/">> ELSE <<>>)
                \o body \o (IF trailing THEN <<"/">> ELSE <<>>)

\* path.join(a, b): the non-empty arguments joined by "/", then normalized
join(a, b) ==
  IF a = <<>> /\ b = <<>> THEN <<".">>
  ELSE IF b = <<>> THEN Normalize(a)
  ELSE IF a = <<>> THEN Normalize(b)
  ELSE Normalize(a \o <<"/">> \o b)

\* p without its trailing slashes
RECURSIVE StripTrailingSlashes(_)
StripTrailingSlashes(p) ==
  IF p # <<>> /\ p[Len(p)] = "/"
  THEN StripTrailingSlashes(SubSeq(p, 1, Len(p) - 1))
  ELSE p

\* path.extname, by its scan from the end of p: the last path component ends
\* at the last character that is not "/" and starts after the "/" before it;
\* the extension runs from the last "." of the component to its end, and is
\* empty when there is no ".", when the only "." is the first character of
\* the component, and for the component ".."
extname(p) ==
  LET nonSlash == {i \in 1..Len(p) : p[i] # "/"}
      last == CHOOSE i \in nonSlash : \A j \in nonSlash : j <= i
      slashes == {i \in 1..last : p[i] = "/"}
      startPart ==
        IF slashes = {} THEN 1
        ELSE 1 + (CHOOSE i \in slashes : \A j \in slashes : j <= i)
      dots == {i \in startPart..last : p[i] = "."}
      startDot == CHOOSE i \in dots : \A j \in dots : j <= i
  IN  IF nonSlash = {} THEN <<>>
      ELSE IF dots = {} THEN <<>>
      ELSE IF startDot = startPart THEN <<>>
      ELSE IF startDot = last /\ startDot = startPart + 1 /\ p[startPart] = "."
      THEN <<>>
      ELSE SubSeq(p, startDot, last)

(***************************************************************************)
(* response.text() and res.end(string): the body bytes are decoded as      *)
(* UTF-8 into a string (a leading byte order mark is dropped, every        *)
(* malformed sequence becomes U+FFFD) and the string is written back as    *)
(* UTF-8.                                                                  *)
(***************************************************************************)
ReplacementChar == 65533

\* the UTF-8 decoder's loop: i is the next byte, cp/seen/needed/lower/upper
\* the state of the sequence being decoded
RECURSIVE Utf8DecodeFrom(_, _, _, _, _, _, _)
Utf8DecodeFrom(bytes, i, cp, seen, needed, lower, upper) ==
  IF i > Len(bytes)
  THEN IF needed # 0 THEN <<ReplacementChar>> ELSE <<>>
  ELSE LET b == bytes[i]
       IN  IF needed = 0
           THEN IF b <= 127
                THEN <<b>> \o Utf8DecodeFrom(bytes, i + 1, 0, 0, 0, 128, 191)
                ELSE IF b >= 194 /\ b <= 223
                THEN Utf8DecodeFrom(bytes, i + 1, b % 32, 0, 1, 128, 191)
                ELSE IF b >= 224 /\ b <= 239
                THEN Utf8DecodeFrom(bytes, i + 1, b % 16, 0, 2,
                                    IF b = 224 THEN 160 ELSE 128,
                                    IF b = 237 THEN 159 ELSE 191)
                ELSE IF b >= 240 /\ b <= 244
                THEN Utf8DecodeFrom(bytes, i + 1, b % 8, 0, 3,
                                    IF b = 240 THEN 144 ELSE 128,
                                    IF b = 244 THEN 143 ELSE 191)
                ELSE <<ReplacementChar>>
                     \o Utf8DecodeFrom(bytes, i + 1, 0, 0, 0, 128, 191)
           ELSE IF b < lower \/ b > upper
                THEN \* the byte is put back and decoded again as a first byte
                     <<ReplacementChar>>
                     \o Utf8DecodeFrom(bytes, i, 0, 0, 0, 128, 191)
                ELSE LET cp2 == cp * 64 + (b % 64)
                     IN  IF seen + 1 = needed
                         THEN <<cp2>> \o Utf8DecodeFrom(bytes, i + 1, 0, 0, 0, 128, 191)
                         ELSE Utf8DecodeFrom(bytes, i + 1, cp2, seen + 1, needed, 128, 191)

ByteOrderMark == <<239, 187, 191>>

\* response.text(): "UTF-8 decode" of the body, a string of code points
Utf8Decode(bytes) ==
  IF StartsWith(bytes, ByteOrderMark)
  THEN Utf8DecodeFrom(bytes, 4, 0, 0, 0, 128, 191)
  ELSE Utf8DecodeFrom(bytes, 1, 0, 0, 0, 128, 191)

\* the bytes res.end(string) writes: the string encoded as UTF-8
RECURSIVE Utf8Encode(_)
Utf8Encode(str) ==
  IF str = <<>> THEN <<>>
  ELSE LET c == Head(str)
           enc == IF c < 128 THEN <<c>>
                  ELSE IF c < 2048
                  THEN <<192 + (c \div 64), 128 + (c % 64)>>
                  ELSE IF c < 65536
                  THEN <<224 + (c \div 4096), 128 + ((c \div 64) % 64), 128 + (c % 64)>>
                  ELSE <<240 + (c \div 262144), 128 + ((c \div 4096) % 64),
                         128 + ((c \div 64) % 64), 128 + (c % 64)>>
       IN  enc \o Utf8Encode(Tail(str))

(***************************************************************************)
(* The inputs of the model: what clients request, what the disk holds and  *)
(* what the remote origin answers.                                         *)
(***************************************************************************)
RootUrl == <<"/">>

Urls == { RootUrl,
          <<"/","a","e","m",".","h","t","m","l">>,
          <<"/","a",".","c","s","s">>,
          <<"/","n","o","t","e","s",".","x","y","z">> }

Methods == {"GET", "POST"}

\* the paths of the disk the model tracks; every other path is absent
FsPaths == { <<"/","r","/","a","e","m",".","h","t","m","l">>,
             <<"/","r","/","a",".","c","s","s">>,
             <<"/","r","/","n","o","t","e","s",".","x","y","z">> }

\* "hi", a lone byte E9 (latin-1 e-acute, malformed as UTF-8), and "h" after a
\* byte order mark
Bodies == { <<104, 105>>, <<233>>, <<239, 187, 191, 104>> }

Absent == [kind |-> "absent", content |-> <<>>]

File(content) == [kind |-> "file", content |-> content]

\* what the disk may hold at a tracked path: nothing, a readable file, and
\* for the default document also a directory or a file the process may not
\* read
FsEntries(p) ==
  IF p = <<"/","r","/","a","e","m",".","h","t","m","l">>
  THEN { Absent, File(<<104, 105>>), File(<<233>>),
         [kind |-> "dir", content |-> <<>>], [kind |-> "noperm", content |-> <<>>] }
  ELSE IF p = <<"/","r","/","a",".","c","s","s">>
  THEN { Absent, File(<<104, 105>>) }
  ELSE { Absent, File(<<233>>) }

FsStates == { f \in [FsPaths -> UNION {FsEntries(p) : p \in FsPaths}] :
                \A p \in FsPaths : f[p] \in FsEntries(p) }

RemoteStatuses == {200, 203, 404, 500}

\* values of the remote content-type header; <<>> stands for a missing header
RemoteTypes == { <<>>,
                 <<"t","e","x","t","/","p","l","a","i","n",";"," ","c","h","a","r","s","e","t","=","i","s","o","-","8","8","5","9","-","1">>,
                 <<"a","p","p","l","i","c","a","t","i","o","n","/","j","s","o","n">>,
                 <<"i","m","a","g","e","/","p","n","g">> }

\* values of the remote Access-Control-Allow-Origin header; <<>> when absent
RemoteAcaos == { <<>>, PROXY_HOST }

\* how the outbound fetch settles: it rejects, or resolves with a response
FetchOutcomes ==
  {[kind |-> "error", status |-> 0, contentType |-> <<>>, acao |-> <<>>]}
    \cup {[kind |-> "response", status |-> st, contentType |-> ct, acao |-> a] :
            st \in RemoteStatuses, ct \in RemoteTypes, a \in RemoteAcaos}

\* how reading the remote body settles
BodyOutcomes ==
  {[ok |-> FALSE, bytes |-> <<>>]} \cup {[ok |-> TRUE, bytes |-> b] : b \in Bodies}

NoOutcome == [kind |-> "none", status |-> 0, contentType |-> <<>>, acao |-> <<>>]

(***************************************************************************)
(* State.                                                                  *)
(***************************************************************************)
VARIABLES
  fs,        \* the disk: FsPaths -> FsEntries
  pc,        \* per connection: where its handleRequest call is suspended
  req,       \* per connection: the request, [url, method]
  loc,       \* per connection: the locals url, filePath, contentType
  res,       \* per connection: the ServerResponse the handler writes to
  outbound,  \* per connection: the fetch calls issued, in order
  obs,       \* per connection: what the disk and the remote origin answered
  proc,      \* the process: its phase, exit code, log lines and SIGINTs taken
  mimeTypes, \* the mimeTypes object: a const binding to an object any code
             \* holding it could write to
  dom,       \* the page in the browser: document.body's overlays and style,
             \* the document's keydown listeners, and what the events did
  console    \* per connection: the lines its handler has written to the
             \* console, in order

vars == <<fs, pc, req, loc, res, outbound, obs, proc, mimeTypes, dom, console>>

(***************************************************************************)
(* The disk as fs/promises sees it (access, readFile).                     *)
(***************************************************************************)
\* what path names: the root directory and "/" are directories, a tracked
\* path is what fs holds, a file followed by "/" does not resolve (ENOTDIR)
FsLookup(fsys, path) ==
  LET q == StripTrailingSlashes(path)
      e == IF q = <<>> \/ q = DirName THEN [kind |-> "dir", content |-> <<>>]
           ELSE IF q \in DOMAIN fsys THEN fsys[q]
           ELSE Absent
  IN  IF q # path /\ e.kind \in {"file", "noperm"}
      THEN Absent
      ELSE e

\* access(path) resolves: the path exists (mode F_OK)
AccessOk(fsys, path) == FsLookup(fsys, path).kind # "absent"

\* readFile(path) resolves: a file the process may read
ReadOk(fsys, path) == FsLookup(fsys, path).kind = "file"

(***************************************************************************)
(* ServerResponse: writeHead and end.  calls records every call with the   *)
(* branch of the handler that made it.                                     *)
(***************************************************************************)
NewResponse ==
  [headersSent |-> FALSE, statusCode |-> 200, headers |-> <<>>,
   finished |-> FALSE, body |-> <<>>, text |-> <<>>, calls |-> <<>>]

\* res.writeHead(status, headers): throws when the headers were already sent
writeHead(r, by, status, headers) ==
  [threw |-> r.headersSent,
   res |-> IF r.headersSent
           THEN [r EXCEPT !.calls = Append(@, <<"writeHead", by>>)]
           ELSE [r EXCEPT !.headersSent = TRUE, !.statusCode = status,
                          !.headers = headers,
                          !.calls = Append(@, <<"writeHead", by>>)]]

\* res.end(data): sends the pending headers and the body and finishes the
\* response; a finished response ignores it.  bytes is binary data or UTF-8
\* encoded text, text the markup of the error page.
end(r, by, bytes, text) ==
  IF r.finished
  THEN [r EXCEPT !.calls = Append(@, <<"end", by>>)]
  ELSE [r EXCEPT !.headersSent = TRUE, !.finished = TRUE, !.body = bytes,
                 !.text = text, !.calls = Append(@, <<"end", by>>)]

(***************************************************************************)
(* The pieces of handleRequest, serveLocalFile and proxyRequest between    *)
(* two awaits.                                                             *)
(***************************************************************************)
\* RewriteRoot with another default document
RewriteRoot_Index(u) ==
  IF u = RootUrl THEN <<"/","i","n","d","e","x",".","h","t","m","l">> ELSE u

\* const url = req.url === '/' ? '/aem.html' : req.url
RewriteRoot(u) == IF u = RootUrl THEN DefaultDocument ELSE u

\* LocalPath over the URL's pathname: the query string is cut off first
LocalPath_NoQuery(url) ==
  LET marks == {i \in DOMAIN url : url[i] = "?"}
      pathname == IF marks = {} THEN url
                  ELSE SubSeq(url, 1, (CHOOSE i \in marks : \A j \in marks : i <= j) - 1)
  IN  join(DirName, IF StartsWith(pathname, <<"/">>) THEN Slice1(pathname) ELSE pathname)

\* const filePath = join(__dirname, url.startsWith('/') ? url.slice(1) : url)
LocalPath(url) ==
  join(DirName, IF StartsWith(url, <<"/">>) THEN Slice1(url) ELSE url)

\* fileExists(filePath): true when access resolves, false when it rejects
fileExists(fsys, filePath) == AccessOk(fsys, filePath)

\* MimeLookup with the table searched by the extension without its dot
MimeLookup_NoDot(ext) ==
  IF \E e \in mimeTypes : e[1] = Slice1(ext)
  THEN (CHOOSE e \in mimeTypes : e[1] = Slice1(ext))[2]
  ELSE OctetStream

\* MimeLookup without the default: mimeTypes[ext], undefined (here the empty
\* string) for an extension the table does not hold
MimeLookup_NoDefault(ext) ==
  IF \E e \in mimeTypes : e[1] = ext
  THEN (CHOOSE e \in mimeTypes : e[1] = ext)[2]
  ELSE <<>>

\* mimeTypes[ext] || 'application/octet-stream': the object's value for the
\* key ext when it has that key, else the default
MimeLookup(ext) ==
  LET valueOf == [k \in {e[1] : e \in mimeTypes} |->
                    (CHOOSE e \in mimeTypes : e[1] = k)[2]]
  IN  IF ext \in DOMAIN valueOf THEN valueOf[ext] ELSE OctetStream

\* LocalHeaders without Cache-Control
LocalHeaders_NoCache(contentType) == "Content-Type" :> contentType

\* the headers of serveLocalFile's writeHead
LocalHeaders(contentType) ==
  ("Content-Type" :> contentType) @@ ("Cache-Control" :> "no-cache")

\* serveLocalFile answering a failed read itself, with a 500
serveLocalFile_500OnError(filePath, fsys, r) ==
  IF ~ReadOk(fsys, filePath)
  THEN [served |-> TRUE,
        res |-> end(writeHead(r, "local", 500, LocalHeaders(TextHtml)).res,
                    "local", <<>>, <<>>)]
  ELSE [served |-> TRUE,
        res |-> end(writeHead(r, "local", 200,
                              LocalHeaders(MimeLookup(extname(filePath)))).res,
                    "local", FsLookup(fsys, filePath).content, <<>>)]

\* serveLocalFile without its `return true`: the file is sent and the caller
\* is told it was not
serveLocalFile_NoReturn(filePath, fsys, r) ==
  IF ~ReadOk(fsys, filePath)
  THEN [served |-> FALSE, res |-> r]
  ELSE LET w == writeHead(r, "local", 200,
                          LocalHeaders(MimeLookup(extname(filePath))))
       IN  [served |-> FALSE,
            res |-> end(w.res, "local", FsLookup(fsys, filePath).content, <<>>)]

\* serveLocalFile with the head written before the file is read: a failed
\* read leaves a response whose headers are sent
serveLocalFile_HeadFirst(filePath, fsys, r) ==
  LET w == writeHead(r, "local", 200, LocalHeaders(MimeLookup(extname(filePath))))
  IN  IF ~ReadOk(fsys, filePath) \/ w.threw
      THEN [served |-> FALSE, res |-> w.res]
      ELSE [served |-> TRUE,
            res |-> end(w.res, "local", FsLookup(fsys, filePath).content, <<>>)]

\* serveLocalFile(filePath, res): [served, res]; a failed read, or a throw of
\* writeHead, is caught and gives served = FALSE
serveLocalFile(filePath, fsys, r) ==
  IF ~ReadOk(fsys, filePath)
  THEN [served |-> FALSE, res |-> r]
  ELSE LET content == FsLookup(fsys, filePath).content
           contentType == MimeLookup(extname(filePath))
           w == writeHead(r, "local", 200, LocalHeaders(contentType))
       IN  IF w.threw
           THEN [served |-> FALSE, res |-> w.res]
           ELSE [served |-> TRUE, res |-> end(w.res, "local", content, <<>>)]

\* ProxyUrl with a "/" put between the origin and the path
ProxyUrl_ExtraSlash(url) == PROXY_HOST \o <<"/">> \o url

\* ProxyUrl with the path normalized as path.normalize does
ProxyUrl_Normalized(url) == PROXY_HOST \o Normalize(url)

\* const proxyUrl = `${PROXY_HOST}${url}`
ProxyUrl(url) == PROXY_HOST \o url

\* the fetch(proxyUrl, {...}) call of proxyRequest
FetchCall(url) ==
  [url |-> ProxyUrl(url),
   method |-> "GET",
   headers |-> ("User-Agent" :> "Mozilla/5.0 (compatible; EDS-Emulation-Layer/1.0)")
               @@ ("Accept" :> "*/*")
               @@ ("Accept-Encoding" :> "gzip, deflate, br")
               @@ ("Connection" :> "keep-alive")]

\* response.ok replaced by a test for server errors only
ResponseOk_Below500(status) == status < 500

\* response.ok
ResponseOk(status) == status >= 200 /\ status <= 299

\* response.headers.get('content-type') || 'application/octet-stream'
ProxyContentType(header) == IF header = <<>> THEN OctetStream ELSE header

\* IsTextType with every body read as text
IsTextType_Always(contentType) == TRUE

\* the test that selects response.text() over response.arrayBuffer()
IsTextType(contentType) ==
  \/ Includes(contentType, <<"t","e","x","t","/">>)
  \/ Includes(contentType, <<"a","p","p","l","i","c","a","t","i","o","n","/","j","s","o","n">>)
  \/ Includes(contentType,
              <<"a","p","p","l","i","c","a","t","i","o","n","/","j","a","v","a","s","c","r","i","p","t">>)

\* the bytes res.end sends for the remote body: the decoded text written back
\* as UTF-8, or the buffer as it is
ProxyContent(contentType, bytes) ==
  IF IsTextType(contentType) THEN Utf8Encode(Utf8Decode(bytes)) ELSE bytes

\* ProxyHeaders without the CORS headers
ProxyHeaders_NoCors(contentType) ==
  ("Content-Type" :> contentType) @@ ("Cache-Control" :> "no-cache")

ProxyHeaders(contentType) ==
  ("Content-Type" :> contentType)
    @@ ("Cache-Control" :> "no-cache")
    @@ ("Access-Control-Allow-Origin" :> "*")
    @@ ("Access-Control-Allow-Methods" :> "GET, POST, PUT, DELETE, OPTIONS")
    @@ ("Access-Control-Allow-Headers" :> "Content-Type, Authorization")

\* proxyRequest once the body is read: [proxied, res]; a throw of writeHead
\* is caught and gives proxied = FALSE
ProxyRespond(contentType, bytes, r) ==
  LET w == writeHead(r, "proxy", 200, ProxyHeaders(contentType))
  IN  IF w.threw
      THEN [proxied |-> FALSE, res |-> w.res]
      ELSE [proxied |-> TRUE,
            res |-> end(w.res, "proxy", ProxyContent(contentType, bytes), <<>>)]

\* AfterProxy with the 404 head written and the response never ended
AfterProxy_NoEnd(proxied, url, r) ==
  IF proxied
  THEN [pc |-> "done", res |-> r]
  ELSE [pc |-> "done", res |-> writeHead(r, "notFound", 404, "Content-Type" :> TextHtml).res]

\* the markup of the error page: fixed text around the two interpolations
NotFoundPage(url) ==
  <<"<h1>404 Not Found</h1><p>The requested resource <code>">>
    \o url
    \o <<"</code> was not found locally or on the proxy server.</p><p>Attempted proxy URL: <code>">>
    \o PROXY_HOST \o url
    \o <<"</code></p>">>

NotFoundHeaders == "Content-Type" :> TextHtml

\* handleRequest after proxyRequest returned: nothing more when it proxied;
\* else the 404 page, written outside any try, so a throw of writeHead
\* rejects the handler's promise
AfterProxy(proxied, url, r) ==
  IF proxied
  THEN [pc |-> "done", res |-> r]
  ELSE LET w == writeHead(r, "notFound", 404, NotFoundHeaders)
       IN  IF w.threw
           THEN [pc |-> "rejected", res |-> w.res]
           ELSE [pc |-> "done",
                 res |-> end(w.res, "notFound", <<>>, NotFoundPage(url))]

(***************************************************************************)
(* handleRequest resumed: what it does when the promise it awaits settles, *)
(* up to its next await or its return.  Each step gives the handler's next *)
(* position, the response object, the fetch calls it issued (0 or 1) and   *)
(* the contentType local.                                                  *)
(***************************************************************************)
\* into proxyRequest up to `await fetch(proxyUrl, ...)`
StartProxy(url, r) ==
  [pc |-> "fetch", res |-> r, fetches |-> <<FetchCall(url)>>, contentType |-> <<>>]

\* OnAccess with the outbound call issued ahead of the local read
OnAccess_Prefetch(url, filePath, fsys, r) ==
  IF fileExists(fsys, filePath)
  THEN [pc |-> "readFile", res |-> r, fetches |-> <<FetchCall(url)>>, contentType |-> <<>>]
  ELSE StartProxy(url, r)

\* `await fileExists(filePath)` settled
OnAccess(url, filePath, fsys, r) ==
  IF fileExists(fsys, filePath)
  THEN [pc |-> "readFile", res |-> r, fetches |-> <<>>, contentType |-> <<>>]
  ELSE StartProxy(url, r)

\* `await readFile(filePath)` settled: `if (served) return`, else the proxy
OnReadFile(url, filePath, fsys, r) ==
  LET s == serveLocalFile(filePath, fsys, r)
  IN  IF s.served
      THEN [pc |-> "done", res |-> s.res, fetches |-> <<>>, contentType |-> <<>>]
      ELSE StartProxy(url, s.res)

\* OnFetch with the fetch outside the try: a rejection of fetch rejects the
\* handler
OnFetch_NoCatch(url, o, r) ==
  IF o.kind = "error"
  THEN [pc |-> "rejected", res |-> r, fetches |-> <<>>, contentType |-> <<>>]
  ELSE IF ~ResponseOk(o.status)
  THEN LET a == AfterProxy(FALSE, url, r)
       IN  [pc |-> a.pc, res |-> a.res, fetches |-> <<>>, contentType |-> <<>>]
  ELSE [pc |-> "body", res |-> r, fetches |-> <<>>,
        contentType |-> ProxyContentType(o.contentType)]

\* OnFetch with a retry: after a failed attempt the fetch is issued again
OnFetch_Retry(url, o, r) ==
  IF o.kind = "error" \/ ~ResponseOk(o.status)
  THEN StartProxy(url, r)
  ELSE [pc |-> "body", res |-> r, fetches |-> <<>>,
        contentType |-> ProxyContentType(o.contentType)]

\* `await fetch` settled with outcome o: a rejection, or the Error thrown for
\* a response that is not ok, is caught: proxyRequest returns false.  Else the
\* handler runs to `await response.text()` / `await response.arrayBuffer()`
OnFetch(url, o, r) ==
  IF o.kind = "error" \/ ~ResponseOk(o.status)
  THEN LET a == AfterProxy(FALSE, url, r)
       IN  [pc |-> a.pc, res |-> a.res, fetches |-> <<>>, contentType |-> <<>>]
  ELSE [pc |-> "body", res |-> r, fetches |-> <<>>,
        contentType |-> ProxyContentType(o.contentType)]

\* OnBody with the body read outside the try: its rejection rejects the
\* handler
OnBody_NoCatch(url, contentType, b, r) ==
  IF ~b.ok
  THEN [pc |-> "rejected", res |-> r, fetches |-> <<>>, contentType |-> contentType]
  ELSE LET p == ProxyRespond(contentType, b.bytes, r)
           a == AfterProxy(p.proxied, url, p.res)
       IN  [pc |-> a.pc, res |-> a.res, fetches |-> <<>>, contentType |-> contentType]

\* the body read settled with outcome b: a rejection is caught like every
\* other error of proxyRequest; else the response is relayed
OnBody(url, contentType, b, r) ==
  LET p == IF b.ok
           THEN ProxyRespond(contentType, b.bytes, r)
           ELSE [proxied |-> FALSE, res |-> r]
      a == AfterProxy(p.proxied, url, p.res)
  IN  [pc |-> a.pc, res |-> a.res, fetches |-> <<>>, contentType |-> contentType]

(***************************************************************************)
(* The content modal of the card widget (spectrum-card.js,                 *)
(* showContentModal).  An overlay is named by the number of the call that  *)
(* created it.  Each call has its own closeModal and handleEscape, closed  *)
(* over its overlay.                                                       *)
(***************************************************************************)
\* modals opened in one run of the page
MaxModals == 3

Modals == 1..MaxModals

\* keys pressed: Escape and one other
Keys == {"Escape", "Tab"}

\* where a click inside an overlay lands: on the overlay itself (outside the
\* modal box) or on the modal box
ClickTargets == {"overlay", "modal"}

Without(seq, x) == SelectSeq(seq, LAMBDA y : y # x)

IsIn(seq, x) == \E i \in DOMAIN seq : seq[i] = x

NoEvent == [type |-> "none", overlay |-> 0, arg |-> ""]

\* the page before any card is clicked: body holds the overlays attached to
\* document.body in order, overflow is document.body.style.overflow, keydown
\* the handleEscape listeners registered on document in order, created the
\* number of showContentModal calls; closedBy tells which listener's
\* closeModal removed an overlay, errors for which overlays closeModal
\* threw, last the event dispatched last
NoDom ==
  [body |-> <<>>, overflow |-> "", keydown |-> <<>>, created |-> 0,
   closedBy |-> [o \in Modals |-> "none"], errors |-> {}, last |-> NoEvent]

\* closeModal without the line that restores body scrolling
closeModal_KeepScrollLock(d, overlay) ==
  IF IsIn(d.body, overlay)
  THEN [threw |-> FALSE, dom |-> [d EXCEPT !.body = Without(@, overlay)]]
  ELSE [threw |-> TRUE, dom |-> d]

\* closeModal of one overlay: removeChild throws NotFoundError when the
\* overlay is not a child of document.body, and the next line is not run
closeModal(d, overlay) ==
  IF IsIn(d.body, overlay)
  THEN [threw |-> FALSE,
        dom |-> [d EXCEPT !.body = Without(@, overlay), !.overflow = ""]]
  ELSE [threw |-> TRUE, dom |-> d]

\* the click listener of the overlay: closes when the click landed on the
\* overlay itself
overlayClick(d, overlay, target) ==
  IF target = "overlay" THEN closeModal(d, overlay) ELSE [threw |-> FALSE, dom |-> d]

\* handleEscape of one overlay: on Escape closeModal, then the listener
\* removes itself; a throw of closeModal leaves it registered
handleEscape(d, overlay, key) ==
  IF key = "Escape"
  THEN LET r == closeModal(d, overlay)
       IN  IF r.threw
           THEN r
           ELSE [threw |-> FALSE, dom |-> [r.dom EXCEPT !.keydown = Without(@, overlay)]]
  ELSE [threw |-> FALSE, dom |-> d]

\* a listener of overlay ran on page d and gave r: an exception it let
\* escape is reported, and the dispatch goes on with the next listener
AfterListener(d, overlay, r, by) ==
  IF r.threw
  THEN [r.dom EXCEPT !.errors = @ \cup {overlay}]
  ELSE IF IsIn(d.body, overlay) /\ ~IsIn(r.dom.body, overlay)
  THEN [r.dom EXCEPT !.closedBy[overlay] = by]
  ELSE r.dom

\* a keydown event on the document: the listeners registered when the
\* dispatch began run in the order they were added
RECURSIVE DispatchKeydown(_, _, _)
DispatchKeydown(d, listeners, key) ==
  IF listeners = <<>>
  THEN d
  ELSE DispatchKeydown(AfterListener(d, Head(listeners),
                                     handleEscape(d, Head(listeners), key), "Escape"),
                       Tail(listeners), key)

\* showContentModal: the overlay is appended to the body, scrolling is
\* locked and handleEscape is registered on the document
showContentModal(d) ==
  LET overlay == d.created + 1
  IN  [d EXCEPT !.created = overlay,
                !.body = Append(@, overlay),
                !.overflow = "hidden",
                !.keydown = Append(@, overlay)]

(***************************************************************************)
(* The console lines of handleRequest, serveLocalFile and proxyRequest,    *)
(* per resumption.  A line is the fixed text of its template, the request  *)
(* method or remote status it interpolates (if any) and the path or URL it *)
(* interpolates (if any).                                                  *)
(***************************************************************************)
Line(text, arg) == [text |-> text, method |-> "", status |-> 0, arg |-> arg]

\* console.log(`Request: ${req.method} ${url}`)
RequestLog(method, url) ==
  << [text |-> "Request:", method |-> method, status |-> 0, arg |-> url] >>

\* ProxyStartLog without the notice that the local file was not found
ProxyStartLog_NoNotice(url) ==
  << Line("Proxying request to:", ProxyUrl(url)) >>

\* handleRequest going on to the proxy, into proxyRequest up to the fetch
ProxyStartLog(url) ==
  << Line("Local file not found, attempting proxy for:", url),
     Line("Proxying request to:", ProxyUrl(url)) >>

\* the catch of proxyRequest
ProxyErrorLog(url) ==
  << Line("Error proxying request for", url), Line("Full error:", <<>>) >>

\* after `await fileExists(filePath)`
AccessLog(url, filePath, fsys) ==
  IF fileExists(fsys, filePath)
  THEN << Line("Serving local file:", filePath) >>
  ELSE ProxyStartLog(url)

\* after `await readFile(filePath)`: nothing when the file is served, else
\* the catch of serveLocalFile and the way to the proxy
ReadFileLog(url, filePath, fsys, r) ==
  IF ReadOk(fsys, filePath) /\ ~r.headersSent
  THEN <<>>
  ELSE << Line("Error serving local file", filePath) >> \o ProxyStartLog(url)

\* after `await fetch(...)`
FetchLog(url, o) ==
  IF o.kind = "error"
  THEN ProxyErrorLog(url)
  ELSE << [text |-> "Proxy response status:", method |-> "", status |-> o.status, arg |-> <<>>],
          Line("Proxy response headers:", <<>>) >>
       \o (IF ~ResponseOk(o.status)
           THEN << [text |-> "Proxy request failed:", method |-> "", status |-> o.status, arg |-> <<>>],
                   Line("Failed URL:", ProxyUrl(url)) >>
                \o ProxyErrorLog(url)
           ELSE << Line("Proxy content type:", ProxyContentType(o.contentType)) >>)

\* after `await response.text()` / `await response.arrayBuffer()`
BodyLog(url, contentType, b, r) ==
  IF ~b.ok
  THEN ProxyErrorLog(url)
  ELSE << Line("Proxy content length", <<>>) >>
       \o (IF r.headersSent
           THEN ProxyErrorLog(url)
           ELSE << Line("Successfully proxied:", url) >>)

(***************************************************************************)
(* Actions: one per resumption of handleRequest, plus the environment.     *)
(* obs keeps, per request, what the environment answered: what the disk    *)
(* held for the file the URL names when access and when readFile settled,  *)
(* and how the outbound call settled.                                      *)
(***************************************************************************)
\* the file a request URL names: the URL under the root directory, the
\* default document for the root URL
NamedFile(u) == DirName \o (IF u = <<"/">> THEN <<"/","a","e","m",".","h","t","m","l">> ELSE u)

NoObs ==
  [accessed |-> FALSE, atAccess |-> Absent, readTried |-> FALSE, atRead |-> Absent,
   remote |-> NoOutcome, bodyRead |-> "?", remoteBody |-> <<>>]

NoReq == [url |-> <<>>, method |-> "GET"]

NoLoc == [url |-> <<>>, filePath |-> <<>>, contentType |-> <<>>]

\* no exit code: the process runs
NoExit == "none"

\* the process once `node server.js` has run to the end of the module:
\* server.listen was called and the socket is not bound yet
Starting == [phase |-> "starting", exitCode |-> NoExit, log |-> <<>>, sigints |-> 0]

\* the listen callback (server.js:159-164): the lines it logs
ListenLog ==
  <<"Server running at http://localhost:PORT", "Serving files from: __dirname",
    "Proxying missing files to: PROXY_HOST", "Main page: http://localhost:PORT/aem.html">>

\* the socket is bound and the listen callback has run
Listening == [Starting EXCEPT !.phase = "listening", !.log = ListenLog]

\* an error nobody handles (an 'error' event without listener, a rejected
\* handler promise): the runtime reports it and exits with code 1
Crash(p, report) ==
  [p EXCEPT !.phase = "exited", !.exitCode = 1, !.log = Append(@, report)]

Init ==
  /\ fs \in FsStates
  /\ proc = Listening
  /\ mimeTypes = MimeTypesAtLoad
  /\ dom = NoDom
  /\ console = [c \in Conns |-> <<>>]
  /\ pc = [c \in Conns |-> "idle"]
  /\ req = [c \in Conns |-> NoReq]
  /\ loc = [c \in Conns |-> NoLoc]
  /\ res = [c \in Conns |-> NewResponse]
  /\ outbound = [c \in Conns |-> <<>>]
  /\ obs = [c \in Conns |-> NoObs]

\* Resume with one response object shared by every handler
Resume_SharedRes(c, s) ==
  /\ proc.phase # "exited"
  /\ proc' = IF s.pc = "rejected" THEN Crash(proc, "Uncaught (in promise)") ELSE proc
  /\ pc' = [pc EXCEPT ![c] = s.pc]
  /\ res' = [d \in Conns |-> s.res]
  /\ outbound' = [outbound EXCEPT ![c] = @ \o s.fetches]
  /\ loc' = [loc EXCEPT ![c].contentType = s.contentType]

\* the handler of connection c moves on by step s
Resume(c, s) ==
  /\ proc.phase # "exited"
  /\ proc' = IF s.pc = "rejected" THEN Crash(proc, "Uncaught (in promise)") ELSE proc
  /\ pc' = [pc EXCEPT ![c] = s.pc]
  /\ res' = [res EXCEPT ![c] = s.res]
  /\ outbound' = [outbound EXCEPT ![c] = @ \o s.fetches]
  /\ loc' = [loc EXCEPT ![c].contentType = s.contentType]

\* Accept with a handler that answers every method but GET with a 405
Accept_GetOnly(c, u, m) ==
  /\ proc.phase = "listening"
  /\ pc[c] = "idle"
  /\ req' = [req EXCEPT ![c] = [url |-> u, method |-> m]]
  /\ loc' = [loc EXCEPT ![c] = [url |-> RewriteRoot(u),
                                filePath |-> LocalPath(RewriteRoot(u)),
                                contentType |-> <<>>]]
  /\ outbound' = [outbound EXCEPT ![c] = <<>>]
  /\ obs' = [obs EXCEPT ![c] = NoObs]
  /\ IF m = "GET"
     THEN /\ pc' = [pc EXCEPT ![c] = "access"]
          /\ res' = [res EXCEPT ![c] = NewResponse]
     ELSE /\ pc' = [pc EXCEPT ![c] = "done"]
          /\ res' = [res EXCEPT ![c] =
                       end(writeHead(NewResponse, "notFound", 405, NotFoundHeaders).res,
                           "notFound", <<>>, <<>>)]
  /\ console' = [console EXCEPT ![c] = RequestLog(m, RewriteRoot(u))]
  /\ UNCHANGED <<fs, proc, mimeTypes, dom>>

\* Accept with a cache of responses by URL: the response another connection
\* finished for the same URL is sent again, and nothing is looked up
Accept_Replay(c, u, m) ==
  /\ proc.phase = "listening"
  /\ pc[c] = "idle"
  /\ req' = [req EXCEPT ![c] = [url |-> u, method |-> m]]
  /\ loc' = [loc EXCEPT ![c] = [url |-> RewriteRoot(u),
                                filePath |-> LocalPath(RewriteRoot(u)),
                                contentType |-> <<>>]]
  /\ outbound' = [outbound EXCEPT ![c] = <<>>]
  /\ obs' = [obs EXCEPT ![c] = NoObs]
  /\ IF \E d \in Conns : pc[d] = "done" /\ req[d].url = u
     THEN /\ pc' = [pc EXCEPT ![c] = "done"]
          /\ res' = [res EXCEPT ![c] =
                       res[CHOOSE d \in Conns : pc[d] = "done" /\ req[d].url = u]]
     ELSE /\ pc' = [pc EXCEPT ![c] = "access"]
          /\ res' = [res EXCEPT ![c] = NewResponse]
  /\ console' = [console EXCEPT ![c] = RequestLog(m, RewriteRoot(u))]
  /\ UNCHANGED <<fs, proc, mimeTypes, dom>>

\* the server calls handleRequest(req, res); it runs to `await access`
Accept(c, u, m) ==
  /\ proc.phase = "listening"
  /\ pc[c] = "idle"
  /\ pc' = [pc EXCEPT ![c] = "access"]
  /\ req' = [req EXCEPT ![c] = [url |-> u, method |-> m]]
  /\ loc' = [loc EXCEPT ![c] = [url |-> RewriteRoot(u),
                                filePath |-> LocalPath(RewriteRoot(u)),
                                contentType |-> <<>>]]
  /\ res' = [res EXCEPT ![c] = NewResponse]
  /\ outbound' = [outbound EXCEPT ![c] = <<>>]
  /\ obs' = [obs EXCEPT ![c] = NoObs]
  /\ console' = [console EXCEPT ![c] = RequestLog(m, RewriteRoot(u))]
  /\ UNCHANGED <<fs, proc, mimeTypes, dom>>

\* access settles against the disk as it is now
AccessDone(c) ==
  /\ pc[c] = "access"
  /\ \E s \in {OnAccess(loc[c].url, loc[c].filePath, fs, res[c])} : Resume(c, s)
  /\ obs' = [obs EXCEPT ![c].accessed = TRUE, ![c].atAccess = FsLookup(fs, NamedFile(req[c].url))]
  /\ console' = [console EXCEPT ![c] = @ \o AccessLog(loc[c].url, loc[c].filePath, fs)]
  /\ UNCHANGED <<fs, req, mimeTypes, dom>>

\* ReadFileDone with a handler that removes the file it has read
ReadFileDone_Unlink(c) ==
  /\ pc[c] = "readFile"
  /\ \E s \in {OnReadFile(loc[c].url, loc[c].filePath, fs, res[c])} : Resume(c, s)
  /\ obs' = [obs EXCEPT ![c].readTried = TRUE, ![c].atRead = FsLookup(fs, NamedFile(req[c].url))]
  /\ fs' = [p \in DOMAIN fs |-> IF p = loc[c].filePath THEN Absent ELSE fs[p]]
  /\ console' = [console EXCEPT ![c] = @ \o ReadFileLog(loc[c].url, loc[c].filePath, fs, res[c])]
  /\ UNCHANGED <<req, mimeTypes, dom>>

\* readFile settles against the disk as it is now
ReadFileDone(c) ==
  /\ pc[c] = "readFile"
  /\ \E s \in {OnReadFile(loc[c].url, loc[c].filePath, fs, res[c])} : Resume(c, s)
  /\ obs' = [obs EXCEPT ![c].readTried = TRUE, ![c].atRead = FsLookup(fs, NamedFile(req[c].url))]
  /\ console' = [console EXCEPT ![c] = @ \o ReadFileLog(loc[c].url, loc[c].filePath, fs, res[c])]
  /\ UNCHANGED <<fs, req, mimeTypes, dom>>

\* FetchSettles with a timer on the outbound call: when it fires the handler
\* stops waiting and answers 404, the remote origin having said nothing
FetchSettles_Timeout(c, o) ==
  /\ pc[c] = "fetch"
  /\ \E s \in {OnFetch(loc[c].url, o, res[c])} : Resume(c, s)
  /\ obs' = [obs EXCEPT ![c].remote = IF o.kind = "error" THEN NoOutcome ELSE o]
  /\ console' = [console EXCEPT ![c] = @ \o FetchLog(loc[c].url, o)]
  /\ UNCHANGED <<fs, req, mimeTypes, dom>>

\* the outbound fetch settles with outcome o
FetchSettles(c, o) ==
  /\ pc[c] = "fetch"
  /\ \E s \in {OnFetch(loc[c].url, o, res[c])} : Resume(c, s)
  /\ obs' = [obs EXCEPT ![c].remote = o]
  /\ console' = [console EXCEPT ![c] = @ \o FetchLog(loc[c].url, o)]
  /\ UNCHANGED <<fs, req, mimeTypes, dom>>

\* the read of the remote body settles with outcome b
BodySettles(c, b) ==
  /\ pc[c] = "body"
  /\ \E s \in {OnBody(loc[c].url, loc[c].contentType, b, res[c])} : Resume(c, s)
  /\ obs' = [obs EXCEPT ![c].bodyRead = IF b.ok THEN "ok" ELSE "fail",
                        ![c].remoteBody = b.bytes]
  /\ console' = [console EXCEPT ![c] = @ \o BodyLog(loc[c].url, loc[c].contentType, b, res[c])]
  /\ UNCHANGED <<fs, req, mimeTypes, dom>>

\* the connection of a finished request ends; its slot takes the next one
Close(c) ==
  /\ proc.phase # "exited"
  /\ pc[c] = "done"
  /\ pc' = [pc EXCEPT ![c] = "idle"]
  /\ req' = [req EXCEPT ![c] = NoReq]
  /\ loc' = [loc EXCEPT ![c] = NoLoc]
  /\ res' = [res EXCEPT ![c] = NewResponse]
  /\ outbound' = [outbound EXCEPT ![c] = <<>>]
  /\ obs' = [obs EXCEPT ![c] = NoObs]
  /\ console' = [console EXCEPT ![c] = <<>>]
  /\ UNCHANGED <<fs, proc, mimeTypes, dom>>

\* the developer (never the server) creates, removes or changes a file
FsChange(p, e) ==
  /\ fs[p] # e
  /\ fs' = [fs EXCEPT ![p] = e]
  /\ UNCHANGED <<pc, req, loc, res, outbound, obs, proc, mimeTypes, dom, console>>

\* no handler is running
Quiet == \A c \in Conns : pc[c] = "idle"

\* Spec: requests handled one after the other, over every input of the model
Next ==
  \/ \E c \in Conns, u \in Urls, m \in Methods : Quiet /\ Accept(c, u, m)
  \/ \E c \in Conns : AccessDone(c)
  \/ \E c \in Conns : ReadFileDone(c)
  \/ \E c \in Conns, o \in FetchOutcomes : FetchSettles(c, o)
  \/ \E c \in Conns, b \in BodyOutcomes : BodySettles(c, b)
  \/ \E c \in Conns : Close(c)
  \/ \E p \in FsPaths : \E e \in FsEntries(p) : FsChange(p, e)

Spec == Init /\ [][Next]_vars

(***************************************************************************)
(* PairSpec: requests in flight at the same time, over the inputs needed   *)
(* to compare two requests: the root URL and the default document, a disk  *)
(* that holds at most the default document (absent, a file or a            *)
(* directory), and a remote origin that fails or answers 200.              *)
(***************************************************************************)
DefaultFile == <<"/","r","/","a","e","m",".","h","t","m","l">>

PairUrls == { RootUrl, <<"/","a","e","m",".","h","t","m","l">> }

PairFetchOutcomes ==
  { o \in FetchOutcomes :
      \/ o.kind = "error"
      \/ /\ o.status = 200
         /\ o.acao = <<>>
         /\ o.contentType = <<"a","p","p","l","i","c","a","t","i","o","n","/","j","s","o","n">> }

PairBodyOutcomes == { b \in BodyOutcomes : ~b.ok \/ b.bytes = <<104, 105>> }

PairEntries == { Absent, File(<<233>>), [kind |-> "dir", content |-> <<>>] }

InitPair ==
  /\ Init
  /\ fs[DefaultFile] \in PairEntries
  /\ \A p \in FsPaths \ {DefaultFile} : fs[p] = Absent

NextPair ==
  \/ \E c \in Conns, u \in PairUrls : Accept(c, u, "GET")
  \/ \E c \in Conns : AccessDone(c)
  \/ \E c \in Conns : ReadFileDone(c)
  \/ \E c \in Conns, o \in PairFetchOutcomes : FetchSettles(c, o)
  \/ \E c \in Conns, b \in PairBodyOutcomes : BodySettles(c, b)
  \/ \E c \in Conns : Close(c)
  \/ \E e \in PairEntries : FsChange(DefaultFile, e)

PairSpec == InitPair /\ [][NextPair]_vars

(***************************************************************************)
(* LiveSpec: the same inputs, one request after the other, with the        *)
(* fairness the runtime gives: an access or readFile on the local disk     *)
(* always settles.  Nothing makes the remote origin answer: the fetch      *)
(* carries no timeout or abort signal, so no fairness is stated for it.    *)
(***************************************************************************)
NextLive ==
  \/ \E c \in Conns, u \in PairUrls : Quiet /\ Accept(c, u, "GET")
  \/ \E c \in Conns : AccessDone(c)
  \/ \E c \in Conns : ReadFileDone(c)
  \/ \E c \in Conns, o \in PairFetchOutcomes : FetchSettles(c, o)
  \/ \E c \in Conns, b \in PairBodyOutcomes : BodySettles(c, b)
  \/ \E c \in Conns : Close(c)
  \/ \E e \in PairEntries : FsChange(DefaultFile, e)

LiveSpec ==
  /\ InitPair
  /\ [][NextLive]_vars
  /\ \A c \in Conns : WF_vars(AccessDone(c)) /\ WF_vars(ReadFileDone(c))

(***************************************************************************)
(* The process: start-up (server.js:157-164) and shutdown (167-173).       *)
(***************************************************************************)
\* server.listen(PORT, callback): the socket is bound, the callback logs
ListenOk ==
  /\ proc.phase = "starting"
  /\ proc' = [proc EXCEPT !.phase = "listening", !.log = ListenLog]
  /\ UNCHANGED <<fs, pc, req, loc, res, outbound, obs, mimeTypes, dom, console>>

\* the bind fails (the port is in use): the server emits 'error', no listener
\* is registered for it, and the runtime ends the process
ListenFails ==
  /\ proc.phase = "starting"
  /\ proc' = Crash(proc, "Error: listen EADDRINUSE: address already in use :::PORT")
  /\ UNCHANGED <<fs, pc, req, loc, res, outbound, obs, mimeTypes, dom, console>>

\* Sigint with a handler that logs and never calls server.close
Sigint_NoClose ==
  /\ proc.phase \in {"listening", "closing"}
  /\ proc.sigints < MaxSigints
  /\ proc' = [proc EXCEPT !.sigints = @ + 1,
                          !.log = Append(@, "Shutting down server...")]
  /\ UNCHANGED <<fs, pc, req, loc, res, outbound, obs, mimeTypes, dom, console>>

\* process.on('SIGINT'): the handler logs and calls server.close, which stops
\* the server from accepting; a later SIGINT runs the handler again
Sigint ==
  /\ proc.phase \in {"listening", "closing"}
  /\ proc.sigints < MaxSigints
  /\ proc' = [proc EXCEPT !.phase = "closing", !.sigints = @ + 1,
                          !.log = Append(@, "Shutting down server...")]
  /\ UNCHANGED <<fs, pc, req, loc, res, outbound, obs, mimeTypes, dom, console>>

\* ServerClosed with the exit taken at once, whatever is in flight
ServerClosed_Now ==
  /\ proc.phase = "closing"
  /\ proc' = [proc EXCEPT !.phase = "exited", !.exitCode = 0,
                          !.log = Append(@, "Server closed")]
  /\ UNCHANGED <<fs, pc, req, loc, res, outbound, obs, mimeTypes, dom, console>>

\* the callback of server.close: called once the listening socket is closed
\* and every connection has ended; it logs and calls process.exit(0)
ServerClosed ==
  /\ proc.phase = "closing"
  /\ \A c \in Conns : pc[c] = "idle"
  /\ proc' = [proc EXCEPT !.phase = "exited", !.exitCode = 0,
                          !.log = Append(@, "Server closed")]
  /\ UNCHANGED <<fs, pc, req, loc, res, outbound, obs, mimeTypes, dom, console>>

(***************************************************************************)
(* ProcSpec: the process from its start to its exit, with requests in      *)
(* flight at the same time for a stylesheet the disk may hold and for a    *)
(* path only the remote origin may hold.                                   *)
(***************************************************************************)
CssUrl == <<"/","a",".","c","s","s">>

NotesUrl == <<"/","n","o","t","e","s",".","x","y","z">>

ProcUrls == { CssUrl, NotesUrl }

CssFile == <<"/","r","/","a",".","c","s","s">>

\* the remote origin fails or answers 200 with an image
ProcFetchOutcomes ==
  { o \in FetchOutcomes :
      \/ o.kind = "error"
      \/ /\ o.status = 200
         /\ o.acao = <<>>
         /\ o.contentType = <<"i","m","a","g","e","/","p","n","g">> }

\* the read of the image fails or gives the byte E9
ProcBodyOutcomes == { b \in BodyOutcomes : ~b.ok \/ b.bytes = <<233>> }

InitProc ==
  /\ fs = [p \in FsPaths |-> IF p = CssFile THEN File(<<104, 105>>) ELSE Absent]
  /\ pc = [c \in Conns |-> "idle"]
  /\ req = [c \in Conns |-> NoReq]
  /\ loc = [c \in Conns |-> NoLoc]
  /\ res = [c \in Conns |-> NewResponse]
  /\ outbound = [c \in Conns |-> <<>>]
  /\ obs = [c \in Conns |-> NoObs]
  /\ proc = Starting
  /\ mimeTypes = MimeTypesAtLoad
  /\ dom = NoDom
  /\ console = [c \in Conns |-> <<>>]

NextProc ==
  \/ ListenOk
  \/ ListenFails
  \/ Sigint
  \/ ServerClosed
  \/ \E c \in Conns, u \in ProcUrls : Accept(c, u, "GET")
  \/ \E c \in Conns : AccessDone(c)
  \/ \E c \in Conns : ReadFileDone(c)
  \/ \E c \in Conns, o \in ProcFetchOutcomes : FetchSettles(c, o)
  \/ \E c \in Conns, b \in ProcBodyOutcomes : BodySettles(c, b)
  \/ \E c \in Conns : Close(c)
  \/ \E e \in FsEntries(CssFile) : FsChange(CssFile, e)

ProcSpec == InitProc /\ [][NextProc]_vars

\* ShutdownSpec: ProcSpec with the fairness the runtime gives: local I/O
\* settles, a finished connection ends, the close callback runs when it can.
\* Nothing makes the remote origin answer.
ShutdownSpec ==
  /\ InitProc
  /\ [][NextProc]_vars
  /\ \A c \in Conns :
       WF_vars(AccessDone(c)) /\ WF_vars(ReadFileDone(c)) /\ WF_vars(Close(c))
  /\ WF_vars(ServerClosed)

(***************************************************************************)
(* PathSpec: requests whose URL holds ".." segments, one after the other,  *)
(* over a disk that holds a stylesheet under the root directory and a      *)
(* file next to the root directory, outside of it.                         *)
(***************************************************************************)
\* a file of the machine that is not under __dirname
OutsideFile == <<"/","s">>

\* URLs as a client may send them (the HTTP parser hands req.url on as it
\* came): plain, with ".." staying under the root, with ".." leaving it
PathUrls == { CssUrl,
              <<"/","x","/",".",".","/","a",".","c","s","s">>,
              <<"/",".",".","/","s">>,
              <<"/","x","/",".",".","/",".",".","/","s">> }

PathFsPaths == { CssFile, OutsideFile }

PathEntries(p) ==
  IF p = OutsideFile THEN { Absent, File(<<233>>) } ELSE { Absent, File(<<104, 105>>) }

InitPath ==
  /\ fs \in { f \in [PathFsPaths -> {Absent, File(<<233>>), File(<<104, 105>>)}] :
                \A p \in PathFsPaths : f[p] \in PathEntries(p) }
  /\ pc = [c \in Conns |-> "idle"]
  /\ req = [c \in Conns |-> NoReq]
  /\ loc = [c \in Conns |-> NoLoc]
  /\ res = [c \in Conns |-> NewResponse]
  /\ outbound = [c \in Conns |-> <<>>]
  /\ obs = [c \in Conns |-> NoObs]
  /\ proc = Listening
  /\ mimeTypes = MimeTypesAtLoad
  /\ dom = NoDom
  /\ console = [c \in Conns |-> <<>>]

NextPath ==
  \/ \E c \in Conns, u \in PathUrls : Quiet /\ Accept(c, u, "GET")
  \/ \E c \in Conns : AccessDone(c)
  \/ \E c \in Conns : ReadFileDone(c)
  \/ \E c \in Conns, o \in PairFetchOutcomes : FetchSettles(c, o)
  \/ \E c \in Conns, b \in PairBodyOutcomes : BodySettles(c, b)
  \/ \E c \in Conns : Close(c)
  \/ \E p \in PathFsPaths : \E e \in PathEntries(p) : FsChange(p, e)

PathSpec == InitPath /\ [][NextPath]_vars

(***************************************************************************)
(* MimeSpec: requests, one after the other, for a file f of every          *)
(* extension of the MIME table and of extensions the table does not hold,  *)
(* over a disk that holds each of these files.                             *)
(***************************************************************************)
\* extensions outside the table: none, unknown, upper case, a prefix of a
\* known one, known ones followed by more, and the lone dot
OtherExts == { <<>>,
               <<".","x","y","z">>,
               <<".","H","T","M","L">>,
               <<".","h","t","m">>,
               <<".","j","s","x">>,
               <<".","c","s","s",".","b","a","k">>,
               <<".">> }

MimeUrls == { <<"/","f">> \o e[1] : e \in MimeTypesAtLoad } \cup { <<"/","f">> \o x : x \in OtherExts }

MimePaths == { DirName \o u : u \in MimeUrls }

InitMime ==
  /\ fs = [p \in MimePaths |-> File(<<104, 105>>)]
  /\ pc = [c \in Conns |-> "idle"]
  /\ req = [c \in Conns |-> NoReq]
  /\ loc = [c \in Conns |-> NoLoc]
  /\ res = [c \in Conns |-> NewResponse]
  /\ outbound = [c \in Conns |-> <<>>]
  /\ obs = [c \in Conns |-> NoObs]
  /\ proc = Listening
  /\ mimeTypes = MimeTypesAtLoad
  /\ dom = NoDom
  /\ console = [c \in Conns |-> <<>>]

NextMime ==
  \/ \E c \in Conns, u \in MimeUrls, m \in Methods : Quiet /\ Accept(c, u, m)
  \/ \E c \in Conns : AccessDone(c)
  \/ \E c \in Conns : ReadFileDone(c)
  \/ \E c \in Conns : Close(c)

MimeSpec == InitMime /\ [][NextMime]_vars

(***************************************************************************)
(* RelaySpec: requests, one after the other, for paths the disk does not   *)
(* hold, answered by a remote origin that sends bodies of many content     *)
(* types, or none.                                                         *)
(***************************************************************************)
\* content-type headers of the remote origin; <<>> stands for a missing one
RelayTypes ==
  { <<>>,
    <<"t","e","x","t","/","h","t","m","l",";"," ","c","h","a","r","s","e","t","=","u","t","f","-","8">>,
    <<"t","e","x","t","/","p","l","a","i","n",";"," ","c","h","a","r","s","e","t","=","i","s","o","-","8","8","5","9","-","1">>,
    <<"t","e","x","t","/","j","a","v","a","s","c","r","i","p","t">>,
    <<"a","p","p","l","i","c","a","t","i","o","n","/","j","s","o","n">>,
    <<"a","p","p","l","i","c","a","t","i","o","n","/","j","a","v","a","s","c","r","i","p","t">>,
    <<"i","m","a","g","e","/","p","n","g">>,
    <<"i","m","a","g","e","/","s","v","g","+","x","m","l">>,
    <<"f","o","n","t","/","w","o","f","f","2">>,
    <<"a","p","p","l","i","c","a","t","i","o","n","/","o","c","t","e","t","-","s","t","r","e","a","m">> }

RelayFetchOutcomes ==
  {[kind |-> "error", status |-> 0, contentType |-> <<>>, acao |-> <<>>]}
    \cup {[kind |-> "response", status |-> st, contentType |-> ct, acao |-> <<>>] :
            st \in {200, 500}, ct \in RelayTypes}

InitRelay ==
  /\ fs = [p \in FsPaths |-> Absent]
  /\ pc = [c \in Conns |-> "idle"]
  /\ req = [c \in Conns |-> NoReq]
  /\ loc = [c \in Conns |-> NoLoc]
  /\ res = [c \in Conns |-> NewResponse]
  /\ outbound = [c \in Conns |-> <<>>]
  /\ obs = [c \in Conns |-> NoObs]
  /\ proc = Listening
  /\ mimeTypes = MimeTypesAtLoad
  /\ dom = NoDom
  /\ console = [c \in Conns |-> <<>>]

NextRelay ==
  \/ \E c \in Conns, u \in ProcUrls : Quiet /\ Accept(c, u, "GET")
  \/ \E c \in Conns : AccessDone(c)
  \/ \E c \in Conns, o \in RelayFetchOutcomes : FetchSettles(c, o)
  \/ \E c \in Conns, b \in BodyOutcomes : BodySettles(c, b)
  \/ \E c \in Conns : Close(c)

RelaySpec == InitRelay /\ [][NextRelay]_vars

(***************************************************************************)
(* UrlSpec: requests, one after the other, whose URL holds a double slash, *)
(* a trailing slash, a query string or a percent escape, over a disk that  *)
(* may hold the stylesheet and a file whose name is the stylesheet's       *)
(* followed by the query string.                                           *)
(***************************************************************************)
DoubleSlashUrl == <<"/","/","a",".","c","s","s">>

TrailingSlashUrl == <<"/","d","/">>

QueryUrl == <<"/","a",".","c","s","s","?","v","=","1">>

EscapedUrl == <<"/","a","%","2","E","c","s","s">>

RawUrls == { RootUrl, CssUrl, DoubleSlashUrl, TrailingSlashUrl, QueryUrl, EscapedUrl }

\* the file named "a.css?v=1"
QueryFile == <<"/","r","/","a",".","c","s","s","?","v","=","1">>

UrlFsPaths == { CssFile, QueryFile }

UrlEntries(p) ==
  IF p = QueryFile THEN { Absent, File(<<233>>) } ELSE { Absent, File(<<104, 105>>) }

InitUrl ==
  /\ fs \in { f \in [UrlFsPaths -> {Absent, File(<<233>>), File(<<104, 105>>)}] :
                \A p \in UrlFsPaths : f[p] \in UrlEntries(p) }
  /\ pc = [c \in Conns |-> "idle"]
  /\ req = [c \in Conns |-> NoReq]
  /\ loc = [c \in Conns |-> NoLoc]
  /\ res = [c \in Conns |-> NewResponse]
  /\ outbound = [c \in Conns |-> <<>>]
  /\ obs = [c \in Conns |-> NoObs]
  /\ proc = Listening
  /\ mimeTypes = MimeTypesAtLoad
  /\ dom = NoDom
  /\ console = [c \in Conns |-> <<>>]

NextUrl ==
  \/ \E c \in Conns, u \in RawUrls : Quiet /\ Accept(c, u, "GET")
  \/ \E c \in Conns : AccessDone(c)
  \/ \E c \in Conns : ReadFileDone(c)
  \/ \E c \in Conns, o \in PairFetchOutcomes : FetchSettles(c, o)
  \/ \E c \in Conns, b \in PairBodyOutcomes : BodySettles(c, b)
  \/ \E c \in Conns : Close(c)
  \/ \E p \in UrlFsPaths : \E e \in UrlEntries(p) : FsChange(p, e)

UrlSpec == InitUrl /\ [][NextUrl]_vars

(***************************************************************************)
(* MethodSpec: requests of either method handled one after the other,      *)
(* each finished response staying on its connection until the connection   *)
(* ends, so that the responses to two requests can be compared.            *)
(***************************************************************************)
\* no handler is running: every connection is free or has its response
Settled == \A c \in Conns : pc[c] \in {"idle", "done"}

InitMethod ==
  /\ fs = [p \in FsPaths |-> IF p = CssFile THEN File(<<104, 105>>) ELSE Absent]
  /\ pc = [c \in Conns |-> "idle"]
  /\ req = [c \in Conns |-> NoReq]
  /\ loc = [c \in Conns |-> NoLoc]
  /\ res = [c \in Conns |-> NewResponse]
  /\ outbound = [c \in Conns |-> <<>>]
  /\ obs = [c \in Conns |-> NoObs]
  /\ proc = Listening
  /\ mimeTypes = MimeTypesAtLoad
  /\ dom = NoDom
  /\ console = [c \in Conns |-> <<>>]

NextMethod ==
  \/ \E c \in Conns, u \in ProcUrls, m \in Methods : Settled /\ Accept(c, u, m)
  \/ \E c \in Conns : AccessDone(c)
  \/ \E c \in Conns : ReadFileDone(c)
  \/ \E c \in Conns, o \in ProcFetchOutcomes : FetchSettles(c, o)
  \/ \E c \in Conns, b \in ProcBodyOutcomes : BodySettles(c, b)
  \/ \E c \in Conns : Close(c)
  \/ \E e \in FsEntries(CssFile) : FsChange(CssFile, e)

MethodSpec == InitMethod /\ [][NextMethod]_vars

(***************************************************************************)
(* ModalSpec: the page in the browser.  The reader clicks card buttons,    *)
(* close buttons and overlays and presses keys; the server is idle.  A     *)
(* card button stays reachable by keyboard while a modal is open, so a     *)
(* second modal can be opened over the first.                              *)
(***************************************************************************)
\* the card's button is clicked: showContentModal(cardData, index)
CardClick ==
  /\ dom.created < MaxModals
  /\ dom' = [showContentModal(dom) EXCEPT
               !.last = [type |-> "card", overlay |-> dom.created + 1, arg |-> ""]]
  /\ UNCHANGED <<fs, pc, req, loc, res, outbound, obs, proc, mimeTypes, console>>

\* the close button of an attached overlay is clicked: its listener is
\* closeModal; the event then bubbles to the overlay, whose listener sees a
\* target that is not the overlay
CloseButtonClick(overlay) ==
  /\ IsIn(dom.body, overlay)
  /\ LET d1 == AfterListener(dom, overlay, closeModal(dom, overlay), "closeButton")
         d2 == AfterListener(d1, overlay, overlayClick(d1, overlay, "closeButton"), "overlay")
     IN  dom' = [d2 EXCEPT !.last = [type |-> "closeButton", overlay |-> overlay, arg |-> ""]]
  /\ UNCHANGED <<fs, pc, req, loc, res, outbound, obs, proc, mimeTypes, console>>

\* a click lands inside an attached overlay, on it or on the modal box
OverlayClick(overlay, target) ==
  /\ IsIn(dom.body, overlay)
  /\ dom' = [AfterListener(dom, overlay, overlayClick(dom, overlay, target), "overlay")
               EXCEPT !.last = [type |-> "click", overlay |-> overlay, arg |-> target]]
  /\ UNCHANGED <<fs, pc, req, loc, res, outbound, obs, proc, mimeTypes, console>>

\* a key is pressed
Keydown(key) ==
  /\ dom' = [DispatchKeydown(dom, dom.keydown, key)
               EXCEPT !.last = [type |-> "keydown", overlay |-> 0, arg |-> key]]
  /\ UNCHANGED <<fs, pc, req, loc, res, outbound, obs, proc, mimeTypes, console>>

InitModal ==
  /\ fs = [p \in FsPaths |-> Absent]
  /\ pc = [c \in Conns |-> "idle"]
  /\ req = [c \in Conns |-> NoReq]
  /\ loc = [c \in Conns |-> NoLoc]
  /\ res = [c \in Conns |-> NewResponse]
  /\ outbound = [c \in Conns |-> <<>>]
  /\ obs = [c \in Conns |-> NoObs]
  /\ proc = Listening
  /\ mimeTypes = MimeTypesAtLoad
  /\ dom = NoDom
  /\ console = [c \in Conns |-> <<>>]

NextModal ==
  \/ CardClick
  \/ \E overlay \in Modals : CloseButtonClick(overlay)
  \/ \E overlay \in Modals, target \in ClickTargets : OverlayClick(overlay, target)
  \/ \E key \in Keys : Keydown(key)

ModalSpec == InitModal /\ [][NextModal]_vars

(***************************************************************************)
(* What the claims speak of, in terms of what the environment answered.    *)
(***************************************************************************)
Done(c) == pc[c] = "done"

\* the named file existed when access settled and was a readable file when
\* it was read
LocalReadable(c) ==
  /\ obs[c].accessed
  /\ obs[c].atAccess.kind # "absent"
  /\ IF obs[c].readTried THEN obs[c].atRead.kind = "file"
     ELSE obs[c].atAccess.kind = "file"

FileBytes(c) ==
  IF obs[c].readTried THEN obs[c].atRead.content ELSE obs[c].atAccess.content

\* the named file was absent when access settled, or could not be read
LocalMiss(c) ==
  /\ obs[c].accessed
  /\ \/ obs[c].atAccess.kind = "absent"
     \/ obs[c].readTried /\ obs[c].atRead.kind # "file"

ReadFailed(c) == obs[c].readTried /\ obs[c].atRead.kind # "file"

SuccessStatus(st) == st \in 200..299

\* the outbound call succeeded: a 2xx response whose body was read
RemoteOk(c) ==
  /\ obs[c].remote.kind = "response"
  /\ SuccessStatus(obs[c].remote.status)
  /\ obs[c].bodyRead = "ok"

\* the outbound call failed: network error, non-2xx status or failed body read
RemoteFailed(c) ==
  \/ obs[c].remote.kind = "error"
  \/ obs[c].remote.kind = "response" /\ ~SuccessStatus(obs[c].remote.status)
  \/ obs[c].bodyRead = "fail"

Header(c, name) ==
  IF name \in DOMAIN res[c].headers THEN res[c].headers[name] ELSE <<"(none)">>

\* the content type the MIME table gives the file a URL of the model names
TypeOfNamedFile(u) ==
  IF u \in {<<"/">>, <<"/","a","e","m",".","h","t","m","l">>}
  THEN <<"t","e","x","t","/","h","t","m","l">>
  ELSE IF u = <<"/","a",".","c","s","s">>
  THEN <<"t","e","x","t","/","c","s","s">>
  ELSE <<"a","p","p","l","i","c","a","t","i","o","n","/","o","c","t","e","t","-","s","t","r","e","a","m">>

\* the path a request is resolved under: the default document for "/"
RequestedPath(c) ==
  IF req[c].url = <<"/">> THEN <<"/","a","e","m",".","h","t","m","l">> ELSE req[c].url

CallsBy(c) == {res[c].calls[i][2] : i \in DOMAIN res[c].calls}

EndCount(c) == Cardinality({i \in DOMAIN res[c].calls : res[c].calls[i][1] = "end"})

(***************************************************************************)
(* Claims.                                                                 *)
(***************************************************************************)
\* C1: a request whose path names a file that exists and is readable is
\* answered with status 200, the file's bytes as body and the MIME type of
\* the file's extension as Content-Type, whatever the remote origin holds.
C1_LocalPrecedence ==
  \A c \in Conns :
    Done(c) /\ LocalReadable(c) =>
      /\ res[c].finished
      /\ res[c].statusCode = 200
      /\ res[c].body = FileBytes(c)
      /\ res[c].text = <<>>
      /\ Header(c, "Content-Type") = TypeOfNamedFile(req[c].url)

C1_Witness ==
  \E c \in Conns :
    /\ Done(c) /\ LocalReadable(c)
    /\ req[c].url = <<"/","a",".","c","s","s">>
    /\ res[c].body = <<104, 105>>

\* C2 (as claimed): with no local file and a successful outbound request,
\* exactly one outbound request to {origin}{path} was made and the client
\* gets the remote status, body and content type unchanged (a missing remote
\* content type may be defaulted).
C2_RelayedUnchanged ==
  \A c \in Conns :
    Done(c) /\ LocalMiss(c) /\ RemoteOk(c) =>
      /\ Len(outbound[c]) = 1
      /\ outbound[c][1].url = PROXY_HOST \o RequestedPath(c)
      /\ res[c].statusCode = obs[c].remote.status
      /\ res[c].body = obs[c].remoteBody
      /\ \/ Header(c, "Content-Type") = obs[c].remote.contentType
         \/ obs[c].remote.contentType = <<>>

\* C3: when the local attempt misses and the proxy attempt fails, the
\* response is a 404 of type text/html whose body contains the requested
\* path and the proxy URL that was attempted.
C3_TotalMiss ==
  \A c \in Conns :
    Done(c) /\ LocalMiss(c) /\ RemoteFailed(c) =>
      /\ res[c].finished
      /\ res[c].statusCode = 404
      /\ res[c].headers = ("Content-Type" :> <<"t","e","x","t","/","h","t","m","l">>)
      /\ Includes(res[c].text, req[c].url)
      /\ Len(outbound[c]) = 1
      /\ Includes(res[c].text, outbound[c][1].url)

C3_Witness ==
  \E c \in Conns :
    /\ Done(c) /\ ReadFailed(c) /\ RemoteFailed(c)
    /\ obs[c].remote.status = 500
    /\ res[c].statusCode = 404
    /\ req[c].url = <<"/">>

\* C4: in every state, the writeHead and end calls made on one response all
\* come from the same outcome: local file, proxy, or 404.
C4_OneOutcome ==
  \A c \in Conns : Cardinality(CallsBy(c)) <= 1

C4_Witness ==
  \E c \in Conns :
    /\ Done(c) /\ ReadFailed(c) /\ RemoteFailed(c)
    /\ CallsBy(c) = {"notFound"}

\* C7: no failure of the disk or of the outbound call rejects the handler:
\* it never ends rejected, and when it returns the response is finished with
\* content (200) or the 404 page.
C7_NoErrorEscapes ==
  \A c \in Conns :
    /\ pc[c] # "rejected"
    /\ Done(c) =>
         /\ res[c].finished
         /\ \/ res[c].statusCode = 200 /\ res[c].text = <<>>
            \/ res[c].statusCode = 404 /\ Includes(res[c].text, RequestedPath(c))

C7_Witness ==
  \E c \in Conns :
    /\ Done(c)
    /\ obs[c].readTried /\ obs[c].atRead.kind = "noperm"
    /\ obs[c].remote.kind = "error"
    /\ res[c].statusCode = 404

\* C8: a remote status outside 200-299 gives the client the 404 page and
\* nothing of the remote response, and the server only ever sends 200 or 404.
C8_NonSuccessIs404 ==
  \A c \in Conns :
    /\ Done(c) /\ obs[c].remote.kind = "response"
         /\ ~SuccessStatus(obs[c].remote.status) =>
         /\ res[c].statusCode = 404
         /\ res[c].headers = ("Content-Type" :> <<"t","e","x","t","/","h","t","m","l">>)
         /\ res[c].body = <<>>
         /\ obs[c].bodyRead = "?"
    /\ res[c].headersSent => res[c].statusCode \in {200, 404}

C8_Witness ==
  \E c \in Conns :
    /\ Done(c)
    /\ obs[c].remote.kind = "response" /\ obs[c].remote.status = 500
    /\ obs[c].remote.contentType = <<"i","m","a","g","e","/","p","n","g">>
    /\ res[c].statusCode = 404

\* C10: a response whose body came from the proxy carries the three fixed
\* CORS headers whatever the remote origin's own, and a response served from
\* a local file carries no Access-Control-Allow-Origin.
C10_CorsOnProxyOnly ==
  \A c \in Conns :
    /\ Done(c) /\ LocalMiss(c) /\ RemoteOk(c) =>
         /\ Header(c, "Access-Control-Allow-Origin") = "*"
         /\ Header(c, "Access-Control-Allow-Methods") = "GET, POST, PUT, DELETE, OPTIONS"
         /\ Header(c, "Access-Control-Allow-Headers") = "Content-Type, Authorization"
    /\ Done(c) /\ LocalReadable(c) =>
         "Access-Control-Allow-Origin" \notin DOMAIN res[c].headers

C10_Witness ==
  \E c \in Conns :
    /\ Done(c) /\ LocalMiss(c) /\ RemoteOk(c)
    /\ obs[c].remote.acao = PROXY_HOST
    /\ res[c].headers["Access-Control-Allow-Origin"] = "*"

\* the environment answered two requests alike wherever both asked it
EnvAgree(c, d) ==
  /\ obs[c].accessed /\ obs[d].accessed
  /\ obs[c].atAccess = obs[d].atAccess
  /\ obs[c].readTried /\ obs[d].readTried => obs[c].atRead = obs[d].atRead
  /\ obs[c].remote.kind # "none" /\ obs[d].remote.kind # "none" =>
       obs[c].remote = obs[d].remote
  /\ obs[c].bodyRead # "?" /\ obs[d].bodyRead # "?" =>
       obs[c].bodyRead = obs[d].bodyRead /\ obs[c].remoteBody = obs[d].remoteBody

WaitingOnRemote(c) == pc[c] \in {"fetch", "body"}

\* C5 (as claimed): every accepted request reaches DONE, whatever the disk
\* and the remote origin do.
C5_AlwaysReachesDone ==
  \A c \in Conns : (pc[c] = "access") ~> Done(c)

\* C5 (amended): a response is ended at most once, and exactly once when the
\* handler has returned; and a request whose outbound call settles whenever
\* one is made reaches DONE.
C5_DoneOnceIfRemoteSettles ==
  \A c \in Conns :
    /\ [](EndCount(c) <= 1 /\ (Done(c) => res[c].finished /\ EndCount(c) = 1))
    /\ ([]<>(~WaitingOnRemote(c))) => ((pc[c] = "access") ~> Done(c))

C5_Witness ==
  \E c \in Conns :
    /\ Done(c) /\ EndCount(c) = 1
    /\ ReadFailed(c) /\ obs[c].bodyRead = "fail"

\* C6: when the file exists at the check and the read fails, the request
\* goes on to the proxy with one outbound request and is not aborted, and its
\* response is the one a request for the same path with no local file gets
\* from the same remote behaviour.
C6_ReadFailureIsAMiss ==
  /\ \A c \in Conns :
       ReadFailed(c) =>
         /\ pc[c] \in {"fetch", "body", "done"}
         /\ Len(outbound[c]) = 1
  /\ \A c, d \in Conns :
       /\ Done(c) /\ ReadFailed(c)
       /\ Done(d) /\ obs[d].accessed /\ obs[d].atAccess.kind = "absent"
       /\ RequestedPath(c) = RequestedPath(d)
       /\ obs[c].remote = obs[d].remote
       /\ obs[c].bodyRead = obs[d].bodyRead
       /\ obs[c].remoteBody = obs[d].remoteBody
       => res[c] = res[d] /\ outbound[c] = outbound[d]

C6_Witness ==
  \E c, d \in Conns :
    /\ Done(c) /\ ReadFailed(c) /\ obs[c].atRead.kind = "dir"
    /\ Done(d) /\ obs[d].atAccess.kind = "absent"
    /\ RemoteOk(c) /\ RemoteOk(d)
    /\ res[c] = res[d]
    /\ res[c].body = <<104, 105>>

\* C9: a request for "/" and a request for "/aem.html" look up the same
\* local file and the same proxy URL, and under the same disk and remote
\* answers they get the same status, headers and body.
C9_RootIsDefaultDocument ==
  \A c, d \in Conns :
    req[c].url = <<"/">> /\ req[d].url = <<"/","a","e","m",".","h","t","m","l">> =>
      /\ loc[c].filePath = loc[d].filePath
      /\ outbound[c] # <<>> /\ outbound[d] # <<>> => outbound[c] = outbound[d]
      /\ Done(c) /\ Done(d) /\ EnvAgree(c, d) =>
           /\ res[c] = res[d]
           /\ outbound[c] = outbound[d]

C9_Witness ==
  \E c, d \in Conns :
    /\ req[c].url = <<"/">> /\ req[d].url = <<"/","a","e","m",".","h","t","m","l">>
    /\ Done(c) /\ Done(d) /\ EnvAgree(c, d)
    /\ LocalReadable(c) /\ res[c].body = <<233>>
    /\ res[c] = res[d]

\* C11: with requests in flight together, each finished response is the one
\* its own request gets alone: determined by its own path and by what the
\* disk and the remote origin answered to it, with nothing of another
\* request in it; and a request waiting on the disk, or a free connection,
\* can always go on, whatever the other requests wait for.
C11_ConcurrentIndependent ==
  \A c \in Conns :
    /\ Done(c) /\ LocalReadable(c) =>
         /\ res[c].statusCode = 200
         /\ res[c].body = FileBytes(c) /\ res[c].text = <<>>
         /\ res[c].headers = ("Content-Type" :> TypeOfNamedFile(req[c].url))
                               @@ ("Cache-Control" :> "no-cache")
         /\ outbound[c] = <<>>
    /\ Done(c) /\ LocalMiss(c) /\ RemoteOk(c) =>
         /\ res[c].statusCode = 200
         /\ res[c].body = obs[c].remoteBody /\ res[c].text = <<>>
         /\ Header(c, "Content-Type") = obs[c].remote.contentType
         /\ Header(c, "Access-Control-Allow-Origin") = "*"
         /\ Len(outbound[c]) = 1
         /\ outbound[c][1].url = PROXY_HOST \o RequestedPath(c)
    /\ Done(c) /\ LocalMiss(c) /\ RemoteFailed(c) =>
         /\ res[c].statusCode = 404
         /\ res[c].body = <<>>
         /\ Includes(res[c].text, RequestedPath(c))
         /\ Len(outbound[c]) = 1
    /\ Done(c) => LocalReadable(c) \/ (LocalMiss(c) /\ (RemoteOk(c) \/ RemoteFailed(c)))
    /\ pc[c] = "access" => ENABLED AccessDone(c)
    /\ pc[c] = "readFile" => ENABLED ReadFileDone(c)
    /\ pc[c] = "idle" /\ proc.phase = "listening" =>
         ENABLED Accept(c, <<"/","a",".","c","s","s">>, "GET")

\* the stylesheet request is finished from the local file while the other
\* request still waits for the remote origin
C11_Witness ==
  \E c, d \in Conns :
    /\ Done(c) /\ LocalReadable(c) /\ req[c].url = <<"/","a",".","c","s","s">>
    /\ res[c].body = <<104, 105>>
    /\ pc[d] = "fetch" /\ req[d].url = <<"/","n","o","t","e","s",".","x","y","z">>
    /\ Len(outbound[d]) = 1 /\ ~res[d].headersSent

\* the path is the root directory or lies under it
UnderRoot(path) == path = DirName \/ StartsWith(path, DirName \o <<"/">>)

\* C12 (as claimed): the path a request checks and reads lies under the root
\* directory, whatever the request path, and the bytes of a file outside the
\* root directory are never served.
C12_RootContained ==
  \A c \in Conns :
    /\ pc[c] # "idle" => UnderRoot(loc[c].filePath)
    /\ "local" \in CallsBy(c) => res[c].body # <<233>>

ExitedClean == proc.phase = "exited" /\ proc.exitCode = 0

\* C13 (as claimed): after a SIGINT the process eventually exits with code 0.
C13_AlwaysExits == (proc.sigints > 0) ~> ExitedClean

\* C13 (amended): after a SIGINT no new connection is accepted; the process
\* exits only with code 0, after logging, once no request is in flight; and
\* it does exit provided no request stays waiting on the remote origin
\* forever.
C13_ExitsOnceRequestsEnd ==
  /\ [][proc.sigints > 0 => \A c \in Conns : pc[c] = "idle" => pc'[c] = "idle"]_vars
  /\ [](proc.sigints > 0 /\ proc.phase = "exited" =>
         /\ proc.exitCode = 0
         /\ proc.log[Len(proc.log)] = "Server closed"
         /\ \A c \in Conns : pc[c] = "idle")
  /\ (\A c \in Conns : []<>(~WaitingOnRemote(c))) => ((proc.sigints > 0) ~> ExitedClean)

\* the process has exited with code 0 after a second SIGINT
C13_Witness ==
  /\ ExitedClean
  /\ proc.sigints = 2
  /\ proc.log[Len(proc.log) - 1] = "Shutting down server..."

\* C14: the process ends with a non-zero exit code only when the bind
\* failed: it never listened, handled no request, and the report of the
\* bind error is what it logged; any other exit is the clean one after a
\* SIGINT, and no handler ends rejected, whatever the disk and the remote
\* origin do.
C14_OnlyBindFailureIsFatal ==
  /\ proc.phase = "exited" =>
       \/ /\ proc.exitCode = 1
          /\ proc.log = <<"Error: listen EADDRINUSE: address already in use :::PORT">>
          /\ proc.sigints = 0
          /\ \A c \in Conns : pc[c] = "idle" /\ ~obs[c].accessed
       \/ /\ proc.exitCode = 0
          /\ proc.sigints > 0
  /\ proc.phase # "exited" => proc.exitCode = "none"
  /\ \A c \in Conns : pc[c] # "rejected"

\* the bind failed and the process is gone with exit code 1
C14_Witness ==
  /\ proc.phase = "exited"
  /\ proc.exitCode = 1
  /\ Len(proc.log) = 1

\* the extension of the file a MimeSpec request names: what follows "/f"
RequestedExt(c) == SubSeq(req[c].url, 3, Len(req[c].url))

\* C15: the table holds 14 extensions, each once; a file of any extension,
\* known or not, is served with a content type, the table's for a known
\* extension and application/octet-stream for every other; the lookup never
\* makes the local attempt fail.
C15_MimeTotal ==
  /\ Cardinality(mimeTypes) = 14
  /\ Cardinality({e[1] : e \in mimeTypes}) = 14
  /\ \A c \in Conns :
       /\ pc[c] \in {"idle", "access", "readFile", "done"}
       /\ outbound[c] = <<>>
       /\ Done(c) =>
            /\ res[c].finished /\ res[c].statusCode = 200
            /\ Header(c, "Content-Type") # <<>>
            /\ \A e \in mimeTypes :
                 e[1] = RequestedExt(c) => Header(c, "Content-Type") = e[2]
            /\ (\A e \in mimeTypes : e[1] # RequestedExt(c)) =>
                 Header(c, "Content-Type") =
                   <<"a","p","p","l","i","c","a","t","i","o","n","/","o","c","t","e","t","-","s","t","r","e","a","m">>

\* a file without extension is served as application/octet-stream
C15_Witness ==
  \E c \in Conns :
    /\ Done(c) /\ req[c].url = <<"/","f">>
    /\ res[c].body = <<104, 105>>
    /\ Header(c, "Content-Type") =
         <<"a","p","p","l","i","c","a","t","i","o","n","/","o","c","t","e","t","-","s","t","r","e","a","m">>

\* the header value names a text, JSON or script media type
IndicatesText(ct) ==
  \/ StartsWith(ct, <<"t","e","x","t","/">>)
  \/ StartsWith(ct, <<"a","p","p","l","i","c","a","t","i","o","n","/","j","s","o","n">>)
  \/ StartsWith(ct, <<"a","p","p","l","i","c","a","t","i","o","n","/","j","a","v","a","s","c","r","i","p","t">>)

\* the bodies of the model read as text and sent as text: the lone byte E9
\* becomes U+FFFD, the byte order mark is dropped, "hi" stays
AsText(bytes) ==
  IF bytes = <<233>> THEN <<239, 191, 189>>
  ELSE IF bytes = <<239, 187, 191, 104>> THEN <<104>>
  ELSE bytes

C17_NoCacheOnEvery200 ==
  \A c \in Conns :
    res[c].headersSent =>
      /\ res[c].statusCode = 200 =>
           /\ CallsBy(c) \in {{"local"}, {"proxy"}}
           /\ "Cache-Control" \in DOMAIN res[c].headers
           /\ res[c].headers["Cache-Control"] = "no-cache"
      /\ "Cache-Control" \notin DOMAIN res[c].headers => res[c].statusCode = 404

\* a file served from the disk, with no-cache
C17_Witness ==
  \E c \in Conns :
    /\ Done(c) /\ LocalReadable(c)
    /\ res[c].statusCode = 200
    /\ CallsBy(c) = {"local"}
    /\ res[c].headers["Cache-Control"] = "no-cache"

\* C18: whatever requests came before, a finished request has looked the
\* file up itself and, on a local miss, has made its own outbound call; a
\* file it serves has the bytes the disk held when it read; and two requests
\* for the same path that got the same answers from the disk and the remote
\* origin have the same response.
C18_Stateless ==
  /\ \A c \in Conns :
       Done(c) =>
         /\ obs[c].accessed
         /\ \/ LocalReadable(c) /\ obs[c].readTried /\ res[c].body = FileBytes(c)
            \/ LocalMiss(c) /\ Len(outbound[c]) = 1 /\ obs[c].remote.kind # "none"
  /\ \A c, d \in Conns :
       /\ Done(c) /\ Done(d)
       /\ RequestedPath(c) = RequestedPath(d)
       /\ EnvAgree(c, d)
       => res[c] = res[d] /\ outbound[c] = outbound[d]

\* two finished requests for the same URL with different responses: the
\* file was served to one and, the disk having changed, the other went to
\* the remote origin
C18_Witness ==
  \E c, d \in Conns :
    /\ Done(c) /\ Done(d)
    /\ req[c].url = req[d].url
    /\ LocalReadable(c) /\ res[c].body = <<233>>
    /\ LocalMiss(d) /\ RemoteOk(d) /\ res[d].body = <<104, 105>>

\* C19: every step of a request (its acceptance, each resumption of its
\* handler, the end of its connection) leaves the disk and the MIME map as
\* they were; the MIME map stays the one the module created, and every
\* outbound call goes to the one configured origin.
C19_Frame ==
  /\ [][(\E c \in Conns : pc'[c] # pc[c]) => fs' = fs /\ mimeTypes' = mimeTypes]_vars
  /\ [](mimeTypes = MimeTypesAtLoad)
  /\ [](\A c \in Conns : \A i \in DOMAIN outbound[c] :
          SubSeq(outbound[c][i].url, 1, 24) =
            <<"h","t","t","p","s",":","/","/","a","l","l","a","b","o","u","t",".","n","e","t","w","o","r","k">>)

\* a stylesheet was served and the disk still holds it
C19_Witness ==
  \E c \in Conns :
    /\ Done(c) /\ LocalReadable(c)
    /\ req[c].url = <<"/","a",".","c","s","s">>
    /\ fs[<<"/","r","/","a",".","c","s","s">>] = File(res[c].body)

\* the position of a handler along the chain
Rank(p) ==
  CASE p = "idle" -> 0
    [] p = "access" -> 1
    [] p = "readFile" -> 2
    [] p = "fetch" -> 3
    [] p = "body" -> 4
    [] OTHER -> 5

\* C20: within one request the outbound call is made at most once and only
\* after the local attempt missed; the 404 is written only after that one
\* outbound call failed; a local response was written only after the file
\* was read and without any outbound call; and every step of a handler moves
\* it forward along local attempt, proxy attempt, 404: none is repeated and
\* none goes back.
C20_ChainOrder ==
  /\ [](\A c \in Conns :
          /\ Len(outbound[c]) <= 1
          /\ outbound[c] # <<>> => LocalMiss(c)
          /\ "local" \in CallsBy(c) => obs[c].readTried /\ outbound[c] = <<>>
          /\ "proxy" \in CallsBy(c) => LocalMiss(c) /\ RemoteOk(c)
          /\ "notFound" \in CallsBy(c) =>
               LocalMiss(c) /\ Len(outbound[c]) = 1 /\ RemoteFailed(c)
          /\ obs[c].readTried => obs[c].accessed /\ obs[c].atAccess.kind # "absent")
  /\ [][\A c \in Conns :
          /\ pc'[c] # pc[c] =>
               Rank(pc'[c]) > Rank(pc[c]) \/ (pc[c] = "done" /\ pc'[c] = "idle")
          /\ (res'[c] # res[c] \/ outbound'[c] # outbound[c] \/ obs'[c] # obs[c]) =>
               pc'[c] # pc[c]]_vars

\* all three steps taken in turn: the path is a directory, the read fails,
\* the fetch is rejected, the 404 is sent
C20_Witness ==
  \E c \in Conns :
    /\ Done(c)
    /\ obs[c].readTried /\ obs[c].atRead.kind = "dir"
    /\ Len(outbound[c]) = 1 /\ obs[c].remote.kind = "error"
    /\ res[c].calls = <<<<"writeHead", "notFound">>, <<"end", "notFound">>>>

\* C21: every outbound call goes to the configured origin followed by the
\* request URL character for character (the default document for "/"): a
\* double slash, a trailing slash, a query string and a percent escape are
\* all passed on as they came.
C21_ExactConcatenation ==
  \A c \in Conns :
    \A i \in DOMAIN outbound[c] :
      /\ outbound[c][i].url =
           <<"h","t","t","p","s",":","/","/","a","l","l","a","b","o","u","t",".","n","e","t","w","o","r","k">>
             \o RequestedPath(c)
      /\ Len(outbound[c][i].url) = 24 + Len(RequestedPath(c))

\* the outbound URL of a request for //a.css keeps the double slash
C21_Witness ==
  \E c \in Conns :
    /\ req[c].url = <<"/","/","a",".","c","s","s">>
    /\ Len(outbound[c]) = 1
    /\ SubSeq(outbound[c][1].url, 23, 31) = <<"r","k","/","/","a",".","c","s","s">>

\* C22: every outbound call is a GET with the User-Agent of the emulation
\* layer, Accept: */* and Connection: keep-alive, whatever the method of the
\* request; a request of any method is looked up on the disk before it is
\* answered; and two requests for the same URL, of whatever methods, resolve
\* the same file and, given the same answers of the disk and the remote
\* origin, make the same outbound call and get the same response.
C22_MethodIgnored ==
  /\ \A c \in Conns : Done(c) => obs[c].accessed
  /\ \A c \in Conns :
       \A i \in DOMAIN outbound[c] :
         /\ outbound[c][i].method = "GET"
         /\ outbound[c][i].headers["User-Agent"] =
              "Mozilla/5.0 (compatible; EDS-Emulation-Layer/1.0)"
         /\ outbound[c][i].headers["Accept"] = "*/*"
         /\ outbound[c][i].headers["Connection"] = "keep-alive"
  /\ \A c, d \in Conns :
       pc[c] # "idle" /\ pc[d] # "idle" /\ req[c].url = req[d].url =>
         /\ loc[c].filePath = loc[d].filePath
         /\ Done(c) /\ Done(d) /\ EnvAgree(c, d) =>
              res[c] = res[d] /\ outbound[c] = outbound[d]

\* a POST and a GET for the same remote-only path, answered alike
C22_Witness ==
  \E c, d \in Conns :
    /\ req[c].method = "POST" /\ req[d].method = "GET"
    /\ req[c].url = req[d].url
    /\ Done(c) /\ Done(d) /\ EnvAgree(c, d)
    /\ RemoteOk(c) /\ res[c].body = <<233>>
    /\ outbound[c][1].method = "GET"
    /\ res[c] = res[d]

\* C23: the handler waits on the remote origin without a timer.  While a
\* request waits for the outbound fetch or for the remote body nothing has
\* been written to its response, and it stops waiting for the fetch only in
\* a step in which the fetch settled (a response or a failure), and for the
\* body only in a step in which the body read settled.
C23_NoTimeout ==
  [][\A c \in Conns :
       WaitingOnRemote(c) =>
         /\ res[c] = NewResponse
         /\ Len(outbound[c]) = 1
         /\ pc[c] = "fetch" =>
              /\ obs[c].remote = NoOutcome
              /\ pc'[c] # "fetch" => obs'[c].remote.kind \in {"error", "response"}
         /\ pc[c] = "body" =>
              /\ obs[c].bodyRead = "?"
              /\ pc'[c] # "body" => obs'[c].bodyRead \in {"ok", "fail"}]_vars

\* a request in the proxy attempt, the remote origin silent so far, and
\* nothing written to its response
C23_Witness ==
  \E c \in Conns :
    /\ pc[c] = "fetch"
    /\ obs[c].accessed /\ obs[c].remote = NoOutcome
    /\ Len(outbound[c]) = 1
    /\ res[c].calls = <<>> /\ ~res[c].headersSent /\ ~res[c].finished

\* C24: an overlay attached to the body has its Escape listener on the
\* document, and a click on its close button, a click on the overlay outside
\* the modal box, and a press of Escape each take it off the body and leave
\* body scrolling restored (overflow "").
C24_DismissalRestores ==
  [][\A overlay \in Modals :
       IsIn(dom.body, overlay) =>
         /\ IsIn(dom.keydown, overlay)
         /\ ( /\ dom' # dom
              /\ \/ dom'.last = [type |-> "closeButton", overlay |-> overlay, arg |-> ""]
                 \/ dom'.last = [type |-> "click", overlay |-> overlay, arg |-> "overlay"]
                 \/ dom'.last = [type |-> "keydown", overlay |-> 0, arg |-> "Escape"] )
            => /\ ~IsIn(dom'.body, overlay)
               /\ dom'.overflow = ""
               /\ dom'.closedBy[overlay] # "none"]_vars

\* three modals, dismissed one by the close button, one by a click on the
\* overlay and one by Escape; nothing is left on the body, which scrolls
C24_Witness ==
  /\ \E a, b, c \in Modals :
       /\ dom.closedBy[a] = "closeButton"
       /\ dom.closedBy[b] = "overlay"
       /\ dom.closedBy[c] = "Escape"
  /\ dom.body = <<>>
  /\ dom.overflow = ""

\* C29: after any sequence of card clicks, close-button clicks, overlay
\* clicks and key presses, closeModal has never run for an overlay that was
\* no longer a child of the body (where removeChild throws).
C29_ClosedAtMostOnce == dom.errors = {}

\* C25: a response is written in one step, head and body together, after the
\* file or the remote body has been read: while a handler awaits the disk or
\* the remote origin its response is untouched, a step that changes a
\* response takes it from untouched to finished with one writeHead and one
\* end, and a request whose file read or remote body read failed ends with
\* such a response written by a later step of the chain (the proxy or the
\* 404 page).
C25_NoPartialResponse ==
  [][\A c \in Conns :
       /\ pc[c] \in {"access", "readFile", "fetch", "body"} => res[c] = NewResponse
       /\ res'[c] # res[c] =>
            \/ res'[c] = NewResponse
            \/ /\ res[c] = NewResponse
               /\ res'[c].headersSent /\ res'[c].finished
               /\ \E by \in {"local", "proxy", "notFound"} :
                    res'[c].calls = <<<<"writeHead", by>>, <<"end", by>>>>
       /\ Done(c) /\ ReadFailed(c) =>
            res[c].finished /\ CallsBy(c) \in {{"proxy"}, {"notFound"}}
       /\ Done(c) /\ obs[c].bodyRead = "fail" =>
            res[c].finished /\ CallsBy(c) = {"notFound"}]_vars

\* a file that could not be read, then a remote body that could not be read,
\* and the 404 page as the whole response
C25_Witness ==
  \E c \in Conns :
    /\ Done(c) /\ ReadFailed(c)
    /\ obs[c].remote.kind = "response" /\ obs[c].bodyRead = "fail"
    /\ res[c].calls = <<<<"writeHead", "notFound">>, <<"end", "notFound">>>>
    /\ res[c].finished

\* C26: a request never makes more than one outbound call; one answered
\* from a local file has made none, and every other finished request has
\* made exactly one.  In terms of the disk: none when the named file was
\* there and readable, one when it was absent or could not be read.
C26_OutboundCount ==
  \A c \in Conns :
    /\ Len(outbound[c]) <= 1
    /\ pc[c] \in {"access", "readFile"} => outbound[c] = <<>>
    /\ Done(c) =>
         /\ Len(outbound[c]) = (IF CallsBy(c) = {"local"} THEN 0 ELSE 1)
         /\ LocalReadable(c) => CallsBy(c) = {"local"}
         /\ LocalMiss(c) => CallsBy(c) # {"local"}

\* a stylesheet served from the disk with no outbound call made
C26_Witness ==
  \E c \in Conns :
    /\ Done(c)
    /\ obs[c].readTried /\ obs[c].atRead.kind = "file"
    /\ CallsBy(c) = {"local"}
    /\ outbound[c] = <<>>
    /\ obs[c].remote = NoOutcome

\* C27: a SIGINT leaves every request in flight as it is; a connection ends
\* only once its response is finished; the process takes the exit with code
\* 0 only from the closing phase, in the step that logs "Server closed", with
\* no connection open; so while a request is handled, or hangs waiting on
\* the remote origin, the process does not exit.
C27_ShutdownWaits ==
  /\ [][proc'.sigints # proc.sigints =>
          /\ proc'.phase = "closing"
          /\ pc' = pc /\ res' = res /\ outbound' = outbound]_vars
  /\ [][\A c \in Conns :
          pc[c] # "idle" /\ pc'[c] = "idle" => Done(c) /\ res[c].finished]_vars
  /\ [][proc.phase # "exited" /\ proc'.phase = "exited" /\ proc'.exitCode = 0 =>
          /\ proc.phase = "closing"
          /\ proc'.log = Append(proc.log, "Server closed")
          /\ \A c \in Conns : pc[c] = "idle" /\ pc'[c] = "idle"]_vars
  /\ [](\A c \in Conns :
          proc.sigints > 0 /\ pc[c] # "idle" => proc.phase = "closing")

\* after a SIGINT one request has been answered by the proxy and its
\* connection is still open, another hangs on the remote origin, and the
\* process is still there
C27_Witness ==
  \E c, d \in Conns :
    /\ proc.phase = "closing" /\ proc.sigints = 1
    /\ proc.exitCode = "none"
    /\ pc[c] = "fetch" /\ obs[c].remote = NoOutcome
    /\ Done(d) /\ RemoteOk(d) /\ res[d].finished

\* C28: the file looked up for /a.css?v=1 is the one named "a.css?v=1" under
\* the root, and for /a%2Ecss the one named "a%2Ecss": the query string is
\* kept and no escape is decoded.  The request for /a.css?v=1 is answered
\* from the disk exactly when that file was there and readable, with that
\* file's bytes; otherwise it goes to the origin with the query string kept,
\* whether or not a.css is on the disk; the disk never answers it with what
\* a.css holds.
C28_RawUrlLookup ==
  \A c \in Conns :
    /\ pc[c] # "idle" /\ req[c].url = QueryUrl =>
         /\ loc[c].filePath = QueryFile
         /\ Done(c) =>
              /\ CallsBy(c) = {"local"} <=> LocalReadable(c)
              /\ CallsBy(c) = {"local"} => res[c].body = FileBytes(c)
              /\ CallsBy(c) # {"local"} =>
                   /\ Len(outbound[c]) = 1
                   /\ outbound[c][1].url = PROXY_HOST \o QueryUrl
              /\ CallsBy(c) = {"local"} => res[c].body = <<233>>
    /\ pc[c] # "idle" /\ req[c].url = EscapedUrl =>
         /\ loc[c].filePath = DirName \o EscapedUrl
         /\ Done(c) =>
              /\ CallsBy(c) # {"local"}
              /\ outbound[c][1].url = PROXY_HOST \o EscapedUrl

\* /a.css?v=1 answered by the origin while a.css is on the disk
C28_Witness ==
  \E c \in Conns :
    /\ req[c].url = QueryUrl /\ Done(c)
    /\ fs[CssFile].kind = "file" /\ fs[QueryFile].kind = "absent"
    /\ obs[c].accessed /\ obs[c].atAccess.kind = "absent"
    /\ RemoteOk(c) /\ CallsBy(c) = {"proxy"}
    /\ outbound[c][1].url = PROXY_HOST \o QueryUrl

\* where in the lines of connection c a line of the given text stands
LinesOf(c, text) == {i \in DOMAIN console[c] : console[c][i].text = text}

\* the first line of a request is `Request: <method> <path>`, and no other
\* line of it is
RequestLineFirst(c) ==
  /\ pc[c] = "idle" => console[c] = <<>>
  /\ pc[c] # "idle" =>
       /\ LinesOf(c, "Request:") = {1}
       /\ console[c][1].method = req[c].method
       /\ console[c][1].arg = RequestedPath(c)

\* `Serving local file: <path>` is there, once, exactly when the existence
\* check succeeded
ServingLineIffExists(c) ==
  /\ Cardinality(LinesOf(c, "Serving local file:")) <= 1
  /\ LinesOf(c, "Serving local file:") # {} <=>
       obs[c].accessed /\ obs[c].atAccess.kind # "absent"
  /\ \A i \in LinesOf(c, "Serving local file:") : console[c][i].arg = loc[c].filePath

\* `Local file not found, attempting proxy for: <path>` and, next to it,
\* `Proxying request to: <proxy URL>` are there, once, exactly when the
\* outbound call was made
ProxyLinesIffAttempted(c) ==
  /\ Cardinality(LinesOf(c, "Local file not found, attempting proxy for:")) <= 1
  /\ LinesOf(c, "Proxying request to:") =
       {i + 1 : i \in LinesOf(c, "Local file not found, attempting proxy for:")}
  /\ LinesOf(c, "Proxying request to:") # {} <=> Len(outbound[c]) = 1
  /\ \A i \in LinesOf(c, "Local file not found, attempting proxy for:") :
       /\ console[c][i].arg = RequestedPath(c)
       /\ console[c][i + 1].arg = outbound[c][1].url

\* C30 (as claimed): the request line comes first, the serving line is there
\* exactly when the existence check succeeded, the two proxy lines exactly
\* when the proxy is attempted, and the proxy is attempted (and its lines
\* are there) only for a file the existence check did not find.
C30_ProxyLinesOnlyWhenNotFound ==
  \A c \in Conns :
    /\ RequestLineFirst(c)
    /\ ServingLineIffExists(c)
    /\ ProxyLinesIffAttempted(c)
    /\ LinesOf(c, "Local file not found, attempting proxy for:") # {} =>
         obs[c].atAccess.kind = "absent"

\* C30 (amended): the request line comes first, the serving line is there
\* exactly when the existence check succeeded, the two proxy lines exactly
\* when the proxy is attempted; and the proxy is attempted when the file was
\* not found or when it was found and could not be read, in which case its
\* lines follow the serving line and the line of the read error.
C30_LogOrder ==
  \A c \in Conns :
    /\ RequestLineFirst(c)
    /\ ServingLineIffExists(c)
    /\ ProxyLinesIffAttempted(c)
    /\ LinesOf(c, "Local file not found, attempting proxy for:") # {} <=> LocalMiss(c)
    /\ LinesOf(c, "Local file not found, attempting proxy for:") # {}
         /\ obs[c].atAccess.kind # "absent" =>
           /\ ReadFailed(c)
           /\ LinesOf(c, "Serving local file:") = {2}
           /\ LinesOf(c, "Error serving local file") = {3}
           /\ LinesOf(c, "Local file not found, attempting proxy for:") = {4}

\* a request for a directory: found, not readable, then proxied; its lines
\* say both that the local file is served and that it was not found
C30_Witness ==
  \E c \in Conns :
    /\ Done(c)
    /\ obs[c].atAccess.kind = "dir" /\ obs[c].atRead.kind = "dir"
    /\ RemoteOk(c)
    /\ console[c][1].text = "Request:"
    /\ console[c][2].text = "Serving local file:"
    /\ console[c][4].text = "Local file not found, attempting proxy for:"
    /\ console[c][5].text = "Proxying request to:"

====
